---- MODULE Spec2Model ----
(***************************************************************************)
(* Ventifact: the "Blueprints" test-result store of packages/data-lib.      *)
(* Tables are bags of rows (a PostgreSQL heap); primary keys are enforced   *)
(* by the statements that insert.  Every SQL statement of tests.ts is an    *)
(* operator from a database to a database, every exported function an       *)
(* action that runs its statements in the order of the code.                *)
(***************************************************************************)
EXTENDS Bags, FiniteSets, Integers, Sequences, TLC

\* ---------------------------------------------------------------- bounds
\* Cutoffs and watermarks range over the instants up to MaxTime.
MaxTime == 3
\* Longest results list handed to the codec on its own.
MaxCodecLen == 3

\* The largest count asked of fetchSomeTestRunsSinceDesc.
MaxCount == 3

\* Clients of the pool, and callers of DB.transaction at one time.
PoolSize == 1
MaxCallers == 2
MaxHours == 25
MaxComputations == 2

\* ------------------------------------------------------------ input sets
Titles == {"a", "boot", "ui"}

\* SQL NULL / JS undefined in a bytea, bigint or bigint[] element position.
NULL == <<-1>>
\* SQL NULL in a bigint[] position.
NullArray == <<NULL>>
\* SQL NULL in the text column branch.
NullText == "<null>"

Min(a, b) == IF a < b THEN a ELSE b

\* ------------------------------------------------------------ Blueprint IDs
BLUEPRINT_ID_BUFFER_SIZE == 8

\* The bytes hash.update(title) feeds to the hash: the UTF-8 encoding.
Utf8(title) ==
  CASE title = "a" -> <<97>>
    [] title = "boot" -> <<98, 111, 111, 116>>
    [] title = "ui" -> <<117, 105>>

\* createHash("shake256", {outputLength: 8}) on the inputs the model can
\* feed it: the three titles and every concatenation of at most three
\* title digests.  <<input, digest>>.
ShakeTable ==
  {
    <<<<97>>,
      <<134, 126, 44, 176, 79, 90, 4, 220>>>>,
    <<<<98, 111, 111, 116>>,
      <<9, 181, 117, 126, 184, 1, 188, 220>>>>,
    <<<<117, 105>>,
      <<57, 190, 253, 78, 77, 208, 92, 64>>>>,
    <<<<>>,
      <<70, 185, 221, 43, 11, 168, 141, 19>>>>,
    <<<<9, 181, 117, 126, 184, 1, 188, 220>>,
      <<19, 5, 179, 82, 139, 225, 135, 235>>>>,
    <<<<57, 190, 253, 78, 77, 208, 92, 64>>,
      <<235, 231, 202, 235, 200, 229, 60, 12>>>>,
    <<<<134, 126, 44, 176, 79, 90, 4, 220>>,
      <<144, 29, 207, 192, 99, 249, 66, 202>>>>,
    <<<<9, 181, 117, 126, 184, 1, 188, 220, 9, 181, 117, 126, 184, 1, 188, 220>>,
      <<85, 204, 246, 140, 24, 83, 111, 6>>>>,
    <<<<9, 181, 117, 126, 184, 1, 188, 220, 57, 190, 253, 78, 77, 208, 92, 64>>,
      <<213, 159, 237, 157, 193, 201, 240, 72>>>>,
    <<<<9, 181, 117, 126, 184, 1, 188, 220, 134, 126, 44, 176, 79, 90, 4, 220>>,
      <<8, 244, 123, 159, 183, 165, 60, 7>>>>,
    <<<<57, 190, 253, 78, 77, 208, 92, 64, 9, 181, 117, 126, 184, 1, 188, 220>>,
      <<71, 66, 139, 168, 184, 113, 202, 133>>>>,
    <<<<57, 190, 253, 78, 77, 208, 92, 64, 57, 190, 253, 78, 77, 208, 92, 64>>,
      <<86, 87, 199, 86, 1, 227, 114, 124>>>>,
    <<<<57, 190, 253, 78, 77, 208, 92, 64, 134, 126, 44, 176, 79, 90, 4, 220>>,
      <<22, 210, 79, 97, 64, 223, 24, 244>>>>,
    <<<<134, 126, 44, 176, 79, 90, 4, 220, 9, 181, 117, 126, 184, 1, 188, 220>>,
      <<191, 247, 30, 21, 133, 134, 212, 230>>>>,
    <<<<134, 126, 44, 176, 79, 90, 4, 220, 57, 190, 253, 78, 77, 208, 92, 64>>,
      <<138, 15, 174, 162, 128, 26, 153, 196>>>>,
    <<<<134, 126, 44, 176, 79, 90, 4, 220, 134, 126, 44, 176, 79, 90, 4, 220>>,
      <<202, 83, 70, 50, 255, 213, 91, 84>>>>,
    <<<<9, 181, 117, 126, 184, 1, 188, 220, 9, 181, 117, 126, 184, 1, 188, 220, 9, 181, 117, 126, 184, 1, 188, 220>>,
      <<63, 135, 225, 15, 72, 161, 181, 187>>>>,
    <<<<9, 181, 117, 126, 184, 1, 188, 220, 9, 181, 117, 126, 184, 1, 188, 220, 57, 190, 253, 78, 77, 208, 92, 64>>,
      <<43, 7, 212, 187, 37, 134, 100, 198>>>>,
    <<<<9, 181, 117, 126, 184, 1, 188, 220, 9, 181, 117, 126, 184, 1, 188, 220, 134, 126, 44, 176, 79, 90, 4, 220>>,
      <<38, 8, 10, 204, 151, 164, 231, 32>>>>,
    <<<<9, 181, 117, 126, 184, 1, 188, 220, 57, 190, 253, 78, 77, 208, 92, 64, 9, 181, 117, 126, 184, 1, 188, 220>>,
      <<67, 141, 60, 81, 181, 175, 196, 247>>>>,
    <<<<9, 181, 117, 126, 184, 1, 188, 220, 57, 190, 253, 78, 77, 208, 92, 64, 57, 190, 253, 78, 77, 208, 92, 64>>,
      <<22, 150, 78, 232, 27, 139, 208, 64>>>>,
    <<<<9, 181, 117, 126, 184, 1, 188, 220, 57, 190, 253, 78, 77, 208, 92, 64, 134, 126, 44, 176, 79, 90, 4, 220>>,
      <<159, 54, 221, 28, 204, 245, 177, 15>>>>,
    <<<<9, 181, 117, 126, 184, 1, 188, 220, 134, 126, 44, 176, 79, 90, 4, 220, 9, 181, 117, 126, 184, 1, 188, 220>>,
      <<146, 63, 222, 126, 50, 223, 189, 246>>>>,
    <<<<9, 181, 117, 126, 184, 1, 188, 220, 134, 126, 44, 176, 79, 90, 4, 220, 57, 190, 253, 78, 77, 208, 92, 64>>,
      <<108, 90, 64, 46, 224, 123, 6, 54>>>>,
    <<<<9, 181, 117, 126, 184, 1, 188, 220, 134, 126, 44, 176, 79, 90, 4, 220, 134, 126, 44, 176, 79, 90, 4, 220>>,
      <<168, 170, 120, 164, 118, 118, 121, 254>>>>,
    <<<<57, 190, 253, 78, 77, 208, 92, 64, 9, 181, 117, 126, 184, 1, 188, 220, 9, 181, 117, 126, 184, 1, 188, 220>>,
      <<81, 57, 115, 152, 241, 135, 49, 216>>>>,
    <<<<57, 190, 253, 78, 77, 208, 92, 64, 9, 181, 117, 126, 184, 1, 188, 220, 57, 190, 253, 78, 77, 208, 92, 64>>,
      <<138, 252, 37, 54, 123, 195, 134, 41>>>>,
    <<<<57, 190, 253, 78, 77, 208, 92, 64, 9, 181, 117, 126, 184, 1, 188, 220, 134, 126, 44, 176, 79, 90, 4, 220>>,
      <<183, 48, 244, 141, 231, 201, 123, 146>>>>,
    <<<<57, 190, 253, 78, 77, 208, 92, 64, 57, 190, 253, 78, 77, 208, 92, 64, 9, 181, 117, 126, 184, 1, 188, 220>>,
      <<186, 135, 61, 168, 28, 93, 255, 167>>>>,
    <<<<57, 190, 253, 78, 77, 208, 92, 64, 57, 190, 253, 78, 77, 208, 92, 64, 57, 190, 253, 78, 77, 208, 92, 64>>,
      <<244, 40, 124, 23, 86, 186, 64, 231>>>>,
    <<<<57, 190, 253, 78, 77, 208, 92, 64, 57, 190, 253, 78, 77, 208, 92, 64, 134, 126, 44, 176, 79, 90, 4, 220>>,
      <<141, 125, 49, 35, 129, 31, 65, 218>>>>,
    <<<<57, 190, 253, 78, 77, 208, 92, 64, 134, 126, 44, 176, 79, 90, 4, 220, 9, 181, 117, 126, 184, 1, 188, 220>>,
      <<80, 230, 26, 58, 60, 36, 40, 200>>>>,
    <<<<57, 190, 253, 78, 77, 208, 92, 64, 134, 126, 44, 176, 79, 90, 4, 220, 57, 190, 253, 78, 77, 208, 92, 64>>,
      <<89, 11, 185, 193, 84, 212, 138, 29>>>>,
    <<<<57, 190, 253, 78, 77, 208, 92, 64, 134, 126, 44, 176, 79, 90, 4, 220, 134, 126, 44, 176, 79, 90, 4, 220>>,
      <<76, 166, 102, 56, 177, 126, 224, 190>>>>,
    <<<<134, 126, 44, 176, 79, 90, 4, 220, 9, 181, 117, 126, 184, 1, 188, 220, 9, 181, 117, 126, 184, 1, 188, 220>>,
      <<169, 42, 201, 37, 45, 71, 238, 93>>>>,
    <<<<134, 126, 44, 176, 79, 90, 4, 220, 9, 181, 117, 126, 184, 1, 188, 220, 57, 190, 253, 78, 77, 208, 92, 64>>,
      <<76, 16, 85, 61, 218, 58, 242, 243>>>>,
    <<<<134, 126, 44, 176, 79, 90, 4, 220, 9, 181, 117, 126, 184, 1, 188, 220, 134, 126, 44, 176, 79, 90, 4, 220>>,
      <<217, 217, 172, 230, 74, 48, 40, 218>>>>,
    <<<<134, 126, 44, 176, 79, 90, 4, 220, 57, 190, 253, 78, 77, 208, 92, 64, 9, 181, 117, 126, 184, 1, 188, 220>>,
      <<54, 127, 8, 248, 215, 162, 15, 225>>>>,
    <<<<134, 126, 44, 176, 79, 90, 4, 220, 57, 190, 253, 78, 77, 208, 92, 64, 57, 190, 253, 78, 77, 208, 92, 64>>,
      <<88, 116, 198, 31, 190, 10, 66, 63>>>>,
    <<<<134, 126, 44, 176, 79, 90, 4, 220, 57, 190, 253, 78, 77, 208, 92, 64, 134, 126, 44, 176, 79, 90, 4, 220>>,
      <<34, 31, 70, 140, 129, 50, 129, 141>>>>,
    <<<<134, 126, 44, 176, 79, 90, 4, 220, 134, 126, 44, 176, 79, 90, 4, 220, 9, 181, 117, 126, 184, 1, 188, 220>>,
      <<178, 128, 114, 163, 101, 72, 147, 75>>>>,
    <<<<134, 126, 44, 176, 79, 90, 4, 220, 134, 126, 44, 176, 79, 90, 4, 220, 57, 190, 253, 78, 77, 208, 92, 64>>,
      <<95, 48, 209, 161, 231, 83, 234, 124>>>>,
    <<<<134, 126, 44, 176, 79, 90, 4, 220, 134, 126, 44, 176, 79, 90, 4, 220, 134, 126, 44, 176, 79, 90, 4, 220>>,
      <<173, 207, 243, 91, 239, 56, 118, 106>>>>
  }

\* BlueprintID.hash: the 8-byte SHAKE256 digest of the bytes the closure wrote.
BlueprintID_hash(input) == (CHOOSE e \in ShakeTable : e[1] = input)[2]

\* Buffer.compare on two 8-byte digests: unsigned lexicographic order.
RECURSIVE BufferCompare(_, _)
BufferCompare(a, b) ==
  IF a = <<>> /\ b = <<>> THEN 0
  ELSE IF a = <<>> THEN -1
  ELSE IF b = <<>> THEN 1
  ELSE IF Head(a) < Head(b) THEN -1
  ELSE IF Head(a) > Head(b) THEN 1
  ELSE BufferCompare(Tail(a), Tail(b))

BlueprintID_compare(a, b) == BufferCompare(a, b)

\* readBigInt64BE: the digest as a signed 64-bit integer, kept as its eight
\* base-256 digits with a signed leading digit (two's complement).
toInt64(digest) ==
  [i \in 1..BLUEPRINT_ID_BUFFER_SIZE |->
     IF i = 1 /\ digest[1] >= 128 THEN digest[1] - 256 ELSE digest[i]]

\* Array.prototype.sort with BlueprintID.compare, on a copy: insertion sort.
RECURSIVE InsertSorted(_, _)
InsertSorted(id, sorted) ==
  IF sorted = <<>> THEN <<id>>
  ELSE IF BlueprintID_compare(id, Head(sorted)) < 0 THEN <<id>> \o sorted
  ELSE <<Head(sorted)>> \o InsertSorted(id, Tail(sorted))

RECURSIVE SortIDs(_)
SortIDs(ids) ==
  IF ids = <<>> THEN <<>> ELSE InsertSorted(Head(ids), SortIDs(Tail(ids)))

RECURSIVE ConcatBuffers(_)
ConcatBuffers(ids) ==
  IF ids = <<>> THEN <<>> ELSE Head(ids) \o ConcatBuffers(Tail(ids))

\* [...ids].sort(BlueprintID.compare): the sorted copy, and the caller's
\* array after the call.
SortCopy(ids) == [sorted |-> SortIDs(ids), caller |-> ids]

\* Variant of deriveBlueprintIDForList that hashes the ids in input order.
deriveBlueprintIDForListUnsorted(ids) == BlueprintID_hash(ConcatBuffers(ids))

deriveBlueprintIDForList(ids) == BlueprintID_hash(ConcatBuffers(SortIDs(ids)))

deriveBlueprintIDForTestBlueprint(title) == BlueprintID_hash(Utf8(title))

\* ------------------------------------------------------------- Result Spec
\* A TestResult is [title, passed]; a results list is a sequence of them.
TestResults == [title : Titles, passed : BOOLEAN]

RECURSIVE CountPassed(_)
CountPassed(results) ==
  IF results = <<>> THEN 0
  ELSE (IF Head(results).passed THEN 1 ELSE 0) + CountPassed(Tail(results))

\* Variant of WriteTestIDs that writes the ids of the other outcome.
RECURSIVE WriteTestIDsInverted(_, _)
WriteTestIDsInverted(results, encodingPassedTests) ==
  IF results = <<>> THEN <<>>
  ELSE (IF Head(results).passed = encodingPassedTests THEN <<>>
        ELSE deriveBlueprintIDForTestBlueprint(Head(results).title))
       \o WriteTestIDsInverted(Tail(results), encodingPassedTests)

\* The loop of encodeFromResults: the ids of the results whose outcome is
\* the enumerated one, in input order.
RECURSIVE WriteTestIDs(_, _)
WriteTestIDs(results, encodingPassedTests) ==
  IF results = <<>> THEN <<>>
  ELSE (IF Head(results).passed # encodingPassedTests THEN <<>>
        ELSE deriveBlueprintIDForTestBlueprint(Head(results).title))
       \o WriteTestIDs(Tail(results), encodingPassedTests)

\* Variant of EncodingPassedTests that enumerates the larger group.
EncodingPassedTestsMajority(results) == 2 * CountPassed(results) > Len(results)

\* Variant of EncodingPassedTests that enumerates the passes on a tie.
EncodingPassedTestsOnTie(results) == 2 * CountPassed(results) <= Len(results)

\* passedCount < results.length / 2
EncodingPassedTests(results) == 2 * CountPassed(results) < Len(results)

\* ResultSpec.encodeFromResults: NULL (undefined) when every test passed,
\* else the tag byte followed by the enumerated ids.
encodeFromResults(results) ==
  IF CountPassed(results) = Len(results) THEN NULL
  ELSE <<IF EncodingPassedTests(results) THEN 1 ELSE 0>>
       \o WriteTestIDs(results, EncodingPassedTests(results))

\* Variant of Chunks that leaves out a last chunk shorter than 8 bytes.
RECURSIVE ChunksWholeOnly(_)
ChunksWholeOnly(payload) ==
  IF Len(payload) < BLUEPRINT_ID_BUFFER_SIZE THEN <<>>
  ELSE <<SubSeq(payload, 1, BLUEPRINT_ID_BUFFER_SIZE)>>
       \o ChunksWholeOnly(SubSeq(payload, BLUEPRINT_ID_BUFFER_SIZE + 1, Len(payload)))

\* The read loop of decodeIDResults: spec.subarray(offset, offset + 8) for
\* offset = 1, 9, ... while offset < spec.length; payload is spec without
\* its tag byte.  A last chunk shorter than 8 bytes is kept as it is.
RECURSIVE Chunks(_)
Chunks(payload) ==
  IF payload = <<>> THEN <<>>
  ELSE IF Len(payload) <= BLUEPRINT_ID_BUFFER_SIZE THEN <<payload>>
  ELSE <<SubSeq(payload, 1, BLUEPRINT_ID_BUFFER_SIZE)>>
       \o Chunks(SubSeq(payload, BLUEPRINT_ID_BUFFER_SIZE + 1, Len(payload)))

Range(seq) == {seq[i] : i \in DOMAIN seq}

\* Variant of decodeIDResults whose Map of a payload has entries for the
\* listed ids only.
decodeIDResultsListedOnly(spec, allIDs) ==
  IF spec = NULL
    THEN [ok |-> TRUE, map |-> [id \in Range(allIDs) |-> TRUE]]
  ELSE IF spec = <<>>
    THEN [ok |-> FALSE, map |-> <<>>]
    ELSE LET chunks == Chunks(SubSeq(spec, 2, Len(spec)))
         IN  IF \E i \in DOMAIN chunks : Len(chunks[i]) # BLUEPRINT_ID_BUFFER_SIZE
               THEN [ok |-> FALSE, map |-> <<>>]
               ELSE [ok |-> TRUE,
                     map |-> [id \in Range(allIDs)
                                       \cap {toInt64(chunks[i]) : i \in DOMAIN chunks}
                                |-> spec[1] = 1]]

\* ResultSpec.decodeIDResults.  allIDs are bigints as the database returns
\* them.  The result is [ok, map]: ok is FALSE when spec.readUInt8(0) throws
\* on an empty buffer or the BlueprintID constructor throws "Expected a
\* 64-bit digest"; map is the Map from id to passed, one entry per distinct
\* id of allIDs.
decodeIDResults(spec, allIDs) ==
  IF spec = NULL
    THEN [ok |-> TRUE, map |-> [id \in Range(allIDs) |-> TRUE]]
  ELSE IF spec = <<>>
    THEN [ok |-> FALSE, map |-> <<>>]
    ELSE LET encodingPassedTests == spec[1] = 1
             chunks == Chunks(SubSeq(spec, 2, Len(spec)))
             wellFormed == \A i \in DOMAIN chunks :
                             Len(chunks[i]) = BLUEPRINT_ID_BUFFER_SIZE
             ids == {toInt64(chunks[i]) : i \in DOMAIN chunks}
         IN  IF ~wellFormed
               THEN [ok |-> FALSE, map |-> <<>>]
               ELSE [ok |-> TRUE,
                     map |-> [id \in Range(allIDs) |->
                                IF encodingPassedTests THEN id \in ids
                                                       ELSE id \notin ids]]

\* ----------------------------------------------------------------- tables
\* A database is a record of four tables, each a bag of rows:
\*   test_blueprints      [id, title]                          PK (id)
\*   test_run_blueprints  [id, test_blueprint_ids]             PK (id)
\*   test_runs            [source, ext_id, blueprint_id, timestamp, branch,
\*                         commit_id, result_spec]             PK (source, ext_id)
\*   test_flakes          [test_run_source, test_run_ext_id,
\*                         test_blueprint_id]                  no key
EmptyDB ==
  [test_blueprints |-> EmptyBag, test_run_blueprints |-> EmptyBag,
   test_runs |-> EmptyBag, test_flakes |-> EmptyBag]

\* The rows of table t that are in the set keep.
Restrict(t, keep) == [r \in (DOMAIN t) \cap keep |-> t[r]]

\* COUNT( * ) over the rows of t that are in the set rows.
CountRows(t, rows) == BagCardinality(Restrict(t, rows))

RECURSIVE BagOfSeq(_)
BagOfSeq(seq) ==
  IF seq = <<>> THEN EmptyBag ELSE SetToBag({Head(seq)}) (+) BagOfSeq(Tail(seq))

\* The outcome of one statement, or of a run of statements: ok is FALSE once
\* a statement has raised an error.
Ok(db) == [ok |-> TRUE, db |-> db]
Failed(db) == [ok |-> FALSE, db |-> db]

\* ------------------------------------------------------------ createTestRun
\* INSERT INTO test_blueprints ... ON CONFLICT (id) DO NOTHING, one VALUES
\* row: skipped when a row with this id is there.
InsertTestBlueprintRow(table, row) ==
  IF \E r \in DOMAIN table : r.id = row.id THEN table
  ELSE table (+) SetToBag({row})

RECURSIVE InsertTestBlueprintRows(_, _)
InsertTestBlueprintRows(table, rows) ==
  IF rows = <<>> THEN table
  ELSE InsertTestBlueprintRows(InsertTestBlueprintRow(table, Head(rows)), Tail(rows))

\* The first query of createTestRun.  With no results the VALUES list is
\* empty and the statement is a syntax error.
InsertTestBlueprints(db, testBlueprints) ==
  IF testBlueprints = <<>> THEN Failed(db)
  ELSE Ok([db EXCEPT !.test_blueprints =
                       InsertTestBlueprintRows(@, testBlueprints)])

\* INSERT INTO test_run_blueprints ... ON CONFLICT (id) DO NOTHING.
InsertTestRunBlueprint(db, row) ==
  IF \E r \in DOMAIN db.test_run_blueprints : r.id = row.id THEN Ok(db)
  ELSE Ok([db EXCEPT !.test_run_blueprints = @ (+) SetToBag({row})])

\* Variant of InsertTestRun without the ON CONFLICT DO NOTHING clause and
\* without the primary key it relies on.
InsertTestRunNoConflictCheck(db, row) ==
  IF ~\E b \in DOMAIN db.test_run_blueprints : b.id = row.blueprint_id
    THEN Failed(db)
  ELSE Ok([db EXCEPT !.test_runs = @ (+) SetToBag({row})])

\* Variant of InsertTestRun with ON CONFLICT (source, ext_id) DO UPDATE.
InsertTestRunOrUpdate(db, row) ==
  IF ~\E b \in DOMAIN db.test_run_blueprints : b.id = row.blueprint_id
    THEN Failed(db)
  ELSE Ok([db EXCEPT !.test_runs =
             Restrict(@, {r \in DOMAIN @ : r.source # row.source \/ r.ext_id # row.ext_id})
               (+) SetToBag({row})])

\* INSERT INTO test_runs ... ON CONFLICT (source, ext_id) DO NOTHING; a row
\* that is inserted must satisfy FOREIGN KEY (blueprint_id).
InsertTestRun(db, row) ==
  IF \E r \in DOMAIN db.test_runs :
       r.source = row.source /\ r.ext_id = row.ext_id
    THEN Ok(db)
  ELSE IF ~\E b \in DOMAIN db.test_run_blueprints : b.id = row.blueprint_id
    THEN Failed(db)
  ELSE Ok([db EXCEPT !.test_runs = @ (+) SetToBag({row})])

\* testRun.results.map(({ title }) => ({ id, title })), ids as toInt64 gives
\* them to the query.
TestBlueprintsOf(results) ==
  [i \in DOMAIN results |->
     [id |-> toInt64(deriveBlueprintIDForTestBlueprint(results[i].title)),
      title |-> results[i].title]]

BlueprintIDsOf(results) ==
  [i \in DOMAIN results |-> deriveBlueprintIDForTestBlueprint(results[i].title)]

\* The row createTestRun writes to test_run_blueprints: the member ids are
\* blueprintIDs.map(toInt64), in the order of the results.
TestRunBlueprintRowOf(results) ==
  [id |-> toInt64(deriveBlueprintIDForList(BlueprintIDsOf(results))),
   test_blueprint_ids |-> [i \in DOMAIN results |-> toInt64(BlueprintIDsOf(results)[i])]]

\* The row createTestRun writes to test_runs.
TestRunRowOf(testRun) ==
  [source |-> testRun.id.source,
   ext_id |-> testRun.id.ext_id,
   blueprint_id |-> toInt64(deriveBlueprintIDForList(BlueprintIDsOf(testRun.results))),
   timestamp |-> testRun.timestamp,
   branch |-> testRun.branch,
   commit_id |-> testRun.commitId,
   result_spec |-> encodeFromResults(testRun.results)]

\* ---------------------------------------------------------------- the runs
P(title) == [title |-> title, passed |-> TRUE]
F(title) == [title |-> title, passed |-> FALSE]

TestRun(source, ext_id, results, timestamp, commitId, branch) ==
  [id |-> [source |-> source, ext_id |-> ext_id], results |-> results,
   timestamp |-> timestamp, commitId |-> commitId, branch |-> branch]

\* The runs the collectors may hand to createTestRun: a small blueprint that
\* shares a test with a larger one, three runs of the larger one on one
\* commit whose outcome for "boot" alternates and whose results come in two
\* orders, a run on another commit, runs that reuse a (source, ext_id) with
\* other data, a title listed twice, and a run without results.
Feed ==
  {TestRun("appveyor", 1, <<P("boot")>>, 1, <<202>>, "main"),
   TestRun("appveyor", 2, <<P("a"), P("boot")>>, 1, <<202>>, "main"),
   TestRun("circleci", 1, <<P("a"), F("boot")>>, 2, <<202>>, NullText),
   TestRun("circleci", 2, <<P("boot"), P("a")>>, 3, <<202>>, NullText),
   TestRun("circleci", 2, <<F("a"), P("boot")>>, 2, <<203>>, "main"),
   TestRun("appveyor", 1, <<P("a"), F("a")>>, 3, <<202>>, "main"),
   TestRun("appveyor", 2, <<F("a"), P("boot")>>, 2, <<202>>, "main"),
   TestRun("circleci", 1, <<>>, 2, <<202>>, NullText)}

\* A rerun that fails a test at the latest timestamp; a flake detector's
\* collectors deliver it beside the runs of Feed.
LateFailureFeed ==
  {TestRun("circleci", 2, <<P("a"), F("boot")>>, 3, <<202>>, NullText)}

\* The value of last.run for a call that takes no run.
NoRun == TestRun("none", 0, <<>>, 0, <<>>, NullText)

\* What createTestRun derives from the run before it opens the transaction.
Derived(testRun) ==
  [testBlueprints |-> TestBlueprintsOf(testRun.results),
   testRunBlueprintRow |-> TestRunBlueprintRowOf(testRun.results),
   testRunRow |-> TestRunRowOf(testRun)]

\* Derived for the runs of Feed, computed once.
DerivedOfFeed ==
  {<<testRun, Derived(testRun)>> : testRun \in Feed \cup LateFailureFeed}

DerivedOf(testRun) == (CHOOSE d \in DerivedOfFeed : d[1] = testRun)[2]

\* The next awaited statement of a closure: it runs on what the statements
\* before it left, unless one of them threw.
Then(res, stmt(_)) == IF res.ok THEN stmt(res.db) ELSE res

\* The closure createTestRun hands to DB.transaction.  failAt names the
\* statement at which the database raises an error of its own (connection
\* loss, timeout): 1, 2, 3 for the three INSERTs, 0 for none.  The two
\* upserts share one client, which runs them in the order they were queued.
createTestRunClosure(db, testRun, failAt) ==
  LET d == DerivedOf(testRun)
      InsertBlueprints(x) ==
        IF failAt = 1 THEN Failed(x) ELSE InsertTestBlueprints(x, d.testBlueprints)
      InsertRunBlueprint(x) ==
        IF failAt = 2 THEN Failed(x) ELSE InsertTestRunBlueprint(x, d.testRunBlueprintRow)
      InsertRun(x) ==
        IF failAt = 3 THEN Failed(x) ELSE InsertTestRun(x, d.testRunRow)
  IN  Then(Then(InsertBlueprints(db), InsertRunBlueprint), InsertRun)

\* Variant of transaction that keeps the closure's writes when it throws.
transactionNoRollback(pre, res, commitFails) ==
  IF res.ok /\ ~commitFails THEN Ok(res.db) ELSE Failed(res.db)

\* DB.transaction: BEGIN, the closure, COMMIT; ROLLBACK when the closure or
\* COMMIT throws.  pre is the database at BEGIN, res the closure's outcome,
\* commitFails whether COMMIT throws.
transaction(pre, res, commitFails) ==
  IF res.ok /\ ~commitFails THEN Ok(res.db) ELSE Failed(pre)

createTestRun(db, testRun, failAt) ==
  transaction(db, createTestRunClosure(db, testRun, failAt), failAt = 4)

\* ----------------------------------------------------- deleteTestRunsBefore
\* The first query: one row per blueprint_id that has a run older than the
\* cutoff.  num_test_runs is COUNT( * ) over the join of those expired runs
\* with all test_runs of the same blueprint_id, that is (expired runs of the
\* blueprint) times (runs of the blueprint); rows with num_test_runs <= 1 are
\* kept and LEFT JOINed with test_run_blueprints.  The columns selected are
\* num_test_runs, blueprint_id and test_blueprint_ids.
OrphanedTestRunBlueprints(db, cutoff) ==
  LET runs == db.test_runs
      expired(b) == {r \in DOMAIN runs : r.blueprint_id = b /\ r.timestamp < cutoff}
      joined(b) == {r \in DOMAIN runs : r.blueprint_id = b}
      count(b) == CountRows(runs, expired(b)) * CountRows(runs, joined(b))
      q == {b \in {r.blueprint_id : r \in DOMAIN runs} :
              expired(b) # {} /\ count(b) <= 1}
      matches(b) == {t \in DOMAIN db.test_run_blueprints : t.id = b}
  IN  {[num_test_runs |-> count(t.id), blueprint_id |-> t.id,
        test_blueprint_ids |-> t.test_blueprint_ids] :
         t \in UNION {matches(b) : b \in q}}
      \cup {[num_test_runs |-> count(b), blueprint_id |-> b,
             test_blueprint_ids |-> NullArray] : b \in {c \in q : matches(c) = {}}}

\* orphanedTestRunBlueprints.rows.map(({ id }) => id): the rows carry no
\* column named id, so every element is undefined, which the driver sends as
\* NULL.
OrphanedIDsParam(rows) == {NULL : row \in rows}

\* SQL "x <> ALL (array)" as a WHERE condition: true only when every
\* comparison is true; a comparison with NULL is not.
NeqAll(x, array) == \A e \in array : e # NULL /\ x # e

\* SQL "x = ANY (array)" as a WHERE condition: true when some comparison is.
EqAny(x, array) == \E e \in array : e # NULL /\ x = e

\* Variant of DeleteFlakesOfExpiredRuns that leaves the flakes to the
\* statements after it.
DeleteNoFlakes(db, cutoff) == Ok(db)

\* DELETE FROM test_flakes USING test_runs WHERE test_runs.timestamp < $1:
\* the join carries no condition between the two tables, so a flake is
\* deleted as soon as any run is older than the cutoff.
DeleteFlakesOfExpiredRuns(db, cutoff) ==
  Ok([db EXCEPT !.test_flakes =
        Restrict(@, {f \in DOMAIN @ :
                       ~\E r \in DOMAIN db.test_runs : r.timestamp < cutoff})])

\* Variant of DeleteExpiredRuns that deletes one expired run per call.
DeleteOneExpiredRun(db, cutoff) ==
  LET expired == {r \in DOMAIN db.test_runs : r.timestamp < cutoff}
      gone == IF expired = {} THEN {} ELSE {CHOOSE r \in expired : TRUE}
  IN  IF \E f \in DOMAIN db.test_flakes : \E r \in gone :
           f.test_run_source = r.source /\ f.test_run_ext_id = r.ext_id
        THEN Failed(db)
        ELSE Ok([db EXCEPT !.test_runs = Restrict(@, (DOMAIN @) \ gone)])

\* Variant of DeleteExpiredRuns that also deletes the runs stamped exactly
\* at the cutoff.
DeleteExpiredRunsInclusive(db, cutoff) ==
  LET gone == {r \in DOMAIN db.test_runs : r.timestamp <= cutoff}
  IN  IF \E f \in DOMAIN db.test_flakes : \E r \in gone :
           f.test_run_source = r.source /\ f.test_run_ext_id = r.ext_id
        THEN Failed(db)
        ELSE Ok([db EXCEPT !.test_runs = Restrict(@, (DOMAIN @) \ gone)])

\* DELETE FROM test_runs WHERE timestamp < $1, rejected when a test_flakes
\* row references a deleted run.  rowCount is the number deleted.
DeleteExpiredRuns(db, cutoff) ==
  LET gone == {r \in DOMAIN db.test_runs : r.timestamp < cutoff}
  IN  IF \E f \in DOMAIN db.test_flakes : \E r \in gone :
           f.test_run_source = r.source /\ f.test_run_ext_id = r.ext_id
        THEN Failed(db)
        ELSE Ok([db EXCEPT !.test_runs = Restrict(@, (DOMAIN @) \ gone)])

ExpiredRowCount(db, cutoff) ==
  CountRows(db.test_runs, {r \in DOMAIN db.test_runs : r.timestamp < cutoff})

\* SELECT id, test_blueprint_ids FROM test_run_blueprints WHERE id <> ALL ($1).
StreamedRunBlueprints(db, idsParam) ==
  {t \in DOMAIN db.test_run_blueprints : NeqAll(t.id, idsParam)}

\* The for-await loop: each streamed row removes its members from the set;
\* the loop stops once the set is empty.
RECURSIVE EliminateReferenced(_, _)
EliminateReferenced(potentiallyOrphaned, streamed) ==
  IF streamed = {} \/ potentiallyOrphaned = {} THEN potentiallyOrphaned
  ELSE LET row == CHOOSE t \in streamed : TRUE
       IN  EliminateReferenced(potentiallyOrphaned \ Range(row.test_blueprint_ids),
                               streamed \ {row})

\* DELETE FROM test_blueprints WHERE id = ANY ($1), rejected when a
\* test_flakes row references a deleted blueprint.
DeleteTestBlueprints(db, ids) ==
  LET gone == {t \in DOMAIN db.test_blueprints : EqAny(t.id, ids)}
  IN  IF \E f \in DOMAIN db.test_flakes : \E t \in gone : f.test_blueprint_id = t.id
        THEN Failed(db)
        ELSE Ok([db EXCEPT !.test_blueprints = Restrict(@, (DOMAIN @) \ gone)])

\* DELETE FROM test_run_blueprints WHERE id = ANY ($1), rejected when a
\* test_runs row references a deleted blueprint.
DeleteTestRunBlueprints(db, idsParam) ==
  LET gone == {t \in DOMAIN db.test_run_blueprints : EqAny(t.id, idsParam)}
  IN  IF \E r \in DOMAIN db.test_runs : \E t \in gone : r.blueprint_id = t.id
        THEN Failed(db)
        ELSE Ok([db EXCEPT !.test_run_blueprints = Restrict(@, (DOMAIN @) \ gone)])

\* The test_blueprint_ids of the candidate rows, gathered into one set.
PotentiallyOrphaned(rows) ==
  UNION {Range(row.test_blueprint_ids) : row \in {x \in rows : x.test_blueprint_ids # NullArray}}

\* The closure deleteTestRunsBefore hands to DB.transaction.  failAt names
\* the statement at which the database raises an error of its own: 1 the
\* candidate query, 2 and 3 the deletes of flakes and runs, 4 the streamed
\* scan, 5 and 6 the deletes of blueprints, 0 none.  A statement that is not
\* reached cannot fail.
deleteTestRunsBeforeClosure(db, cutoff, failAt) ==
  LET rows == OrphanedTestRunBlueprints(db, cutoff)
      idsParam == OrphanedIDsParam(rows)
      Query(x) == IF failAt = 1 THEN Failed(x) ELSE Ok(x)
      DeleteFlakes(x) ==
        IF failAt = 2 THEN Failed(x) ELSE DeleteFlakesOfExpiredRuns(x, cutoff)
      DeleteRuns(x) ==
        IF failAt = 3 THEN Failed(x) ELSE DeleteExpiredRuns(x, cutoff)
      Scan(x) == IF failAt = 4 THEN Failed(x) ELSE Ok(x)
      DeleteOrphanedTests(x) ==
        LET remaining == EliminateReferenced(PotentiallyOrphaned(rows),
                           StreamedRunBlueprints(x, idsParam))
        IN  IF remaining = {} THEN Ok(x)
            ELSE IF failAt = 5 THEN Failed(x)
            ELSE DeleteTestBlueprints(x, remaining)
      DeleteOrphanedRunBlueprints(x) ==
        IF failAt = 6 THEN Failed(x) ELSE DeleteTestRunBlueprints(x, idsParam)
      \* if (orphanedTestRunBlueprints.rowCount > 0)
      HandleOrphans(x) ==
        IF rows = {} THEN Ok(x)
        ELSE Then(Then(Scan(x), DeleteOrphanedTests), DeleteOrphanedRunBlueprints)
  IN  Then(Then(Then(Query(db), DeleteFlakes), DeleteRuns), HandleOrphans)

\* Variant of deleteTestRunsBefore that runs its statements outside a
\* transaction.
deleteTestRunsBeforeNoTransaction(db, cutoff, failAt) ==
  LET Return(res) ==
        [ok |-> res.ok /\ failAt # 7, db |-> res.db,
         ret |-> IF res.ok /\ failAt # 7 THEN ExpiredRowCount(db, cutoff) ELSE 0]
  IN  Return(deleteTestRunsBeforeClosure(db, cutoff, failAt))

\* deleteTestRunsBefore: the database left behind and the number returned
\* (testRunsDeletedResult.rowCount); ok is FALSE when the call throws.
\* failAt = 7 is an error raised by COMMIT.
deleteTestRunsBefore(db, cutoff, failAt) ==
  LET Return(res) ==
        [ok |-> res.ok, db |-> res.db,
         ret |-> IF res.ok THEN ExpiredRowCount(db, cutoff) ELSE 0]
  IN  Return(transaction(db, deleteTestRunsBeforeClosure(db, cutoff, failAt),
                         failAt = 7))

\* ------------------------------------------------------ markTestFlakesSince
\* The orders in which ORDER BY timestamp ASC may present the rows of
\* test_runs: every arrangement that is ascending in timestamp (rows with
\* equal timestamps come in either order).
RECURSIVE TimestampOrders(_)
TimestampOrders(runs) ==
  IF runs = {} THEN {<<>>}
  ELSE LET first == {r \in runs : \A s \in runs : r.timestamp <= s.timestamp}
       IN  UNION {{<<r>> \o ord : ord \in TimestampOrders(runs \ {r})} : r \in first}

\* Variant of EarlierInPartition that partitions by blueprint_id alone.
EarlierInBlueprint(ord, i) ==
  {j \in 1..(i - 1) : ord[j].blueprint_id = ord[i].blueprint_id}

\* WINDOW w AS (PARTITION BY blueprint_id, commit_id ORDER BY timestamp ASC):
\* the positions before i that hold a row of the partition of ord[i].
EarlierInPartition(ord, i) ==
  {j \in 1..(i - 1) : /\ ord[j].blueprint_id = ord[i].blueprint_id
                      /\ ord[j].commit_id = ord[i].commit_id}

Max(S) == CHOOSE x \in S : \A y \in S : y <= x

\* The rows of the subquery q that have a predecessor (rerun_num > 1), each
\* with the LAG columns of the row before it in its partition.
Reruns(ord) ==
  {[source |-> ord[i].source, ext_id |-> ord[i].ext_id,
    previous_source |-> ord[Max(EarlierInPartition(ord, i))].source,
    previous_ext_id |-> ord[Max(EarlierInPartition(ord, i))].ext_id,
    blueprint_id |-> ord[i].blueprint_id,
    timestamp |-> ord[i].timestamp,
    result_spec |-> ord[i].result_spec,
    previous_result_spec |-> ord[Max(EarlierInPartition(ord, i))].result_spec,
    rerun_num |-> Cardinality(EarlierInPartition(ord, i)) + 1] :
     i \in {k \in DOMAIN ord : EarlierInPartition(ord, k) # {}}}

\* Variant of SpecsDiffer that is the bare SQL comparison a != b, which is
\* not true when either side is NULL.
SpecsDifferNotNull(a, b) == a # NULL /\ b # NULL /\ a # b

\* The WHERE clause on result_spec: NULL against a payload, a payload against
\* NULL, or two payloads that differ.
SpecsDiffer(a, b) ==
  \/ a = NULL /\ b # NULL
  \/ a # NULL /\ b = NULL
  \/ a # NULL /\ b # NULL /\ a # b

\* The query of markTestFlakesSince: the reruns after the cutoff whose
\* result_spec differs from their predecessor's, LEFT JOINed with
\* test_run_blueprints for test_blueprint_ids.
FlakyTestReruns(db, cutoff, ord) ==
  LET q == {r \in Reruns(ord) :
              /\ r.timestamp > cutoff
              /\ r.rerun_num > 1
              /\ SpecsDiffer(r.result_spec, r.previous_result_spec)}
      matches(r) == {t \in DOMAIN db.test_run_blueprints : t.id = r.blueprint_id}
  IN  {[row |-> r, test_blueprint_ids |-> t.test_blueprint_ids] :
         <<r, t>> \in {p \in q \X DOMAIN db.test_run_blueprints : p[2] \in matches(p[1])}}
      \cup {[row |-> r, test_blueprint_ids |-> NullArray] : r \in {x \in q : matches(x) = {}}}

\* prevResults.get(id) === undefined for an id of results, once both
\* payloads are decoded: the loop throws "Test run blueprint mismatch".
BlueprintMismatch(rerun) ==
  /\ decodeIDResults(rerun.row.result_spec, rerun.test_blueprint_ids).ok
  /\ decodeIDResults(rerun.row.previous_result_spec, rerun.test_blueprint_ids).ok
  /\ \E id \in DOMAIN decodeIDResults(rerun.row.result_spec,
                                      rerun.test_blueprint_ids).map :
       id \notin DOMAIN decodeIDResults(rerun.row.previous_result_spec,
                                        rerun.test_blueprint_ids).map

\* Whether the loop body throws for this row: a missing test_blueprint_ids,
\* a payload the decoder rejects, or an id without a previous result.
RerunThrows(rerun) ==
  \/ rerun.test_blueprint_ids = NullArray
  \/ ~decodeIDResults(rerun.row.result_spec, rerun.test_blueprint_ids).ok
  \/ ~decodeIDResults(rerun.row.previous_result_spec, rerun.test_blueprint_ids).ok
  \/ BlueprintMismatch(rerun)

\* The flakes one rerun contributes: for every id whose outcome changed, a
\* row against the run in which the test failed.
FlakesOfRerun(rerun) ==
  LET results == decodeIDResults(rerun.row.result_spec, rerun.test_blueprint_ids).map
      prevResults ==
        decodeIDResults(rerun.row.previous_result_spec, rerun.test_blueprint_ids).map
      failureInCurrentRun(id) == ~results[id]
  IN  {[test_run_source |-> IF failureInCurrentRun(id) THEN rerun.row.source
                            ELSE rerun.row.previous_source,
        test_run_ext_id |-> IF failureInCurrentRun(id) THEN rerun.row.ext_id
                            ELSE rerun.row.previous_ext_id,
        test_blueprint_id |-> id] :
         id \in {x \in DOMAIN results : prevResults[x] # results[x]}}

\* newTestFlakes, as the bag of rows pushed over all reruns.
RECURSIVE NewTestFlakes(_)
NewTestFlakes(reruns) ==
  IF reruns = {} THEN EmptyBag
  ELSE LET rerun == CHOOSE r \in reruns : TRUE
       IN  SetToBag(FlakesOfRerun(rerun)) (+) NewTestFlakes(reruns \ {rerun})

\* INSERT INTO test_flakes ... VALUES ...: one statement, rejected as a whole
\* when a row names a run or a test blueprint that is not there.
InsertTestFlakes(db, flakes) ==
  IF \E f \in DOMAIN flakes :
       \/ ~\E r \in DOMAIN db.test_runs :
             r.source = f.test_run_source /\ r.ext_id = f.test_run_ext_id
       \/ ~\E t \in DOMAIN db.test_blueprints : t.id = f.test_blueprint_id
    THEN Failed(db)
    ELSE Ok([db EXCEPT !.test_flakes = @ (+) flakes])

\* markTestFlakesSince, with ord the order in which the window presents the
\* runs: the database left behind and the number returned; ok is FALSE when
\* the call throws.  It runs on the pool, outside any transaction.
markTestFlakesSince(db, cutoff, ord) ==
  LET reruns == FlakyTestReruns(db, cutoff, ord)
      Insert(newTestFlakes) ==
        IF newTestFlakes = EmptyBag THEN Ok(db)
        ELSE InsertTestFlakes(db, newTestFlakes)
      Return(res, length) ==
        [ok |-> res.ok, db |-> res.db, ret |-> IF res.ok THEN length ELSE 0]
      InsertAndReturn(newTestFlakes) ==
        Return(Insert(newTestFlakes), BagCardinality(newTestFlakes))
  IN  IF \E r \in reruns : RerunThrows(r)
        THEN [ok |-> FALSE, db |-> db, ret |-> 0]
        ELSE InsertAndReturn(NewTestFlakes(reruns))

\* ----------------------------------------------- fetchSomeTestRunsSinceDesc
\* The value of the cutoff parameter when the caller leaves it out.
Undefined == -1

\* ORDER BY timestamp DESC presents the rows in the reverse of one of the
\* ascending orders.
Reverse(seq) == [i \in 1..Len(seq) |-> seq[Len(seq) + 1 - i]]

\* WHERE timestamp > $2, present only when a cutoff is given.
SinceCutoff(db, cutoff) ==
  IF cutoff = Undefined THEN DOMAIN db.test_runs
  ELSE {r \in DOMAIN db.test_runs : r.timestamp > cutoff}

\* The object built from a row: the id, the timestamp, the commit, and
\* succeeded, which the query computes as result_spec IS NOT NULL.
FetchedTestRun(row) ==
  [id |-> [source |-> row.source, ext_id |-> row.ext_id],
   timestamp |-> row.timestamp,
   commitId |-> row.commit_id,
   succeeded |-> row.result_spec # NULL]

\* fetchSomeTestRunsSinceDesc, with desc the order in which ORDER BY
\* timestamp DESC presents the selected rows: the first count of them.
fetchSomeTestRunsSinceDesc(count, cutoff, desc) ==
  [i \in 1..Min(count, Len(desc)) |-> FetchedTestRun(desc[i])]

\* ------------------------------------------------------------ state machine
\* The four tables; last, the call that was made last (op, whether it
\* returned, what it returned, its cutoff, its run, the statement that was
\* made to fail); history, the runs handed to createTestRun calls that
\* committed, kept for as long as no other operation has been called; codec,
\* the position of a codec round trip made on its own.
\* pool, the clients of the connection pool and the DB.transaction calls in
\* progress on them; sessions, the transactions that are open at the same
\* time, each with the rows it has written and not yet committed.  The four
\* tables hold the committed rows.
VARIABLES test_blueprints, test_run_blueprints, test_runs, test_flakes,
          last, history, codec, pool, sessions, maintain, caches

vars == <<test_blueprints, test_run_blueprints, test_runs, test_flakes,
          last, history, codec, pool, sessions, maintain, caches>>

\* The four tables as one database value.
DB ==
  [test_blueprints |-> test_blueprints, test_run_blueprints |-> test_run_blueprints,
   test_runs |-> test_runs, test_flakes |-> test_flakes]

\* Cap on the rows of test_flakes, a table without a key.
MaxFlakes == 3

\* The clients the pool may hold (max in db.ts) and the callers that may have
\* a DB.transaction call in progress at one time.
Clients == 1..PoolSize
Callers == 1..MaxCallers

NoCall == [op |-> "none", pc |-> "idle", client |-> 0, released |-> 0, thrown |-> {}]

\* The pool with no client checked out and no call in progress.
PoolIdle == [idle |-> Clients, calls |-> [c \in Callers |-> NoCall]]

\* The database sessions that may have a transaction open at one time.
Sessions == 1..2

\* A session without a transaction: the operation and its argument, the
\* statement it is at (and the VALUES row, for the first INSERT), the rows
\* inserted and deleted so far, what the purge has read (rows, remaining,
\* ret), and the committed database at BEGIN.
NoSession ==
  [op |-> "none", pc |-> "idle", run |-> NoRun, cutoff |-> 0, i |-> 0,
   ins |-> EmptyDB, del |-> EmptyDB, rows |-> {}, remaining |-> {}, ret |-> 0,
   pre |-> EmptyDB]

NoSessions == [s \in Sessions |-> NoSession]

\* The value of codec while no round trip is made.
CodecIdle ==
  [pc |-> "idle", results |-> <<>>, spec |-> NULL, ok |-> TRUE, map |-> <<>>,
   ids |-> <<>>, id |-> <<>>]

\* A maintainer that is not in a cycle: the cutoff of the cycle, whether its
\* purge deleted a run, the sources it has ingested from, and for each of the
\* two ingest loops where it is, the cutoff it fetches until and the time of
\* the item the API presented last.
MaintainIdle ==
  [pc |-> "idle", expiredCutoff |-> 0, purged |-> FALSE, ingested |-> {},
   appveyor |-> [pc |-> "idle", cutoffIsNull |-> FALSE, cutoff |-> 0,
                 project |-> 0, at |-> 0],
   circleci |-> [pc |-> "idle", cutoff |-> 0, at |-> 0]]

\* The web processes after start.  A cache variable is undefined, a Promise
\* (pending, fulfilled or rejected) or { result, expires }, where result is
\* the number of the computation that produced it.  Beside the two caches:
\* the hour, the number of computations each process has started and has in
\* flight, the hour at which the last computation of each resolved, and what
\* the last call returned: a Promise of which computation, settled how at the
\* time of the call, and whether the call started a query; seq alternates
\* with every call.
CachesIdle ==
  [now |-> 0,
   page |-> [kind |-> "undefined", state |-> "none", result |-> 0, expires |-> 0],
   svc |-> [kind |-> "undefined", state |-> "none", result |-> 0, expires |-> 0],
   started |-> [page |-> 0, svc |-> 0], inFlight |-> [page |-> 0, svc |-> 0],
   resolvedAt |-> [page |-> 0, svc |-> 0],
   answer |-> [of |-> "none", seq |-> 0, computation |-> 0, state |-> "none",
               queried |-> FALSE]]

InitTables ==
  /\ test_blueprints = EmptyBag
  /\ test_run_blueprints = EmptyBag
  /\ test_runs = EmptyBag
  /\ test_flakes = EmptyBag
  /\ last = [op |-> "none", ok |-> TRUE, ret |-> 0, cutoff |-> 0, run |-> NoRun,
             failAt |-> 0, wasIngestOnly |-> TRUE]
  /\ history = [ingestOnly |-> TRUE, runs |-> {}]
  /\ pool = PoolIdle
  /\ sessions = NoSessions
  /\ maintain = MaintainIdle
  /\ caches = CachesIdle

Init == InitTables /\ codec = CodecIdle

Install(db) ==
  /\ test_blueprints' = db.test_blueprints
  /\ test_run_blueprints' = db.test_run_blueprints
  /\ test_runs' = db.test_runs
  /\ test_flakes' = db.test_flakes

\* A call has ended with res: the tables are what it left, and last and
\* history record it.  test_flakes stays within MaxFlakes rows.
Record(op, res, cutoff, run, failAt) ==
  /\ BagCardinality(res.db.test_flakes) <= MaxFlakes
  /\ Install(res.db)
  /\ last' = [op |-> op, ok |-> res.ok, ret |-> res.ret, cutoff |-> cutoff,
              run |-> run, failAt |-> failAt,
              wasIngestOnly |-> history.ingestOnly]
  /\ history' = IF op # "createTestRun" THEN [ingestOnly |-> FALSE, runs |-> {}]
                ELSE IF history.ingestOnly /\ res.ok
                  THEN [history EXCEPT !.runs = @ \cup {run}]
                ELSE history
  /\ UNCHANGED <<codec, pool, sessions, caches>>

\* createTestRun returns nothing.
Returning(res, ret) == [ok |-> res.ok, db |-> res.db, ret |-> ret]

CreateTestRun(testRun, failAt) ==
  /\ Record("createTestRun", Returning(createTestRun(DB, testRun, failAt), 0),
            0, testRun, failAt)
  /\ UNCHANGED maintain

DeleteTestRunsBefore(cutoff, failAt) ==
  /\ Record("deleteTestRunsBefore", deleteTestRunsBefore(DB, cutoff, failAt),
            cutoff, NoRun, failAt)
  /\ UNCHANGED maintain

MarkTestFlakesSince(cutoff) ==
  /\ \E ord \in TimestampOrders(DOMAIN test_runs) :
       Record("markTestFlakesSince", markTestFlakesSince(DB, cutoff, ord),
              cutoff, NoRun, 0)
  /\ UNCHANGED maintain

\* The calls of a maintainer and its collectors, none of them interrupted.
Next ==
  \/ \E testRun \in Feed : CreateTestRun(testRun, 0)
  \/ \E cutoff \in 1..(MaxTime + 1) : DeleteTestRunsBefore(cutoff, 0)
  \/ \E cutoff \in 0..MaxTime : MarkTestFlakesSince(cutoff)

Spec == Init /\ [][Next]_vars

\* The same calls, where the database may also raise an error at any
\* statement of a transaction or at its COMMIT.  The maintainer exits on
\* such an error (process.exit(1) in maintain.ts); a behaviour is followed
\* up to the first call that fails.
NextFaults ==
  /\ last.failAt = 0
  /\ \/ Next
     \/ \E testRun \in Feed, failAt \in 1..4 : CreateTestRun(testRun, failAt)
     \/ \E cutoff \in 1..(MaxTime + 1), failAt \in 1..7 :
          DeleteTestRunsBefore(cutoff, failAt)

SpecFaults == Init /\ [][NextFaults]_vars

\* ---------------------------------------- payloads of another writer
\* The rerun collectors' runs of one blueprint on one commit.
RerunFeed ==
  {testRun \in Feed :
     /\ testRun.commitId = <<202>>
     /\ {testRun.results[i].title : i \in DOMAIN testRun.results} = {"a", "boot"}}

\* result_spec is a bytea column without a CHECK: it holds whatever a writer
\* stores.  The payloads tried are the prefixes of the stored payload
\* followed by a second copy of its ids, the stored payload excepted.
PayloadsFrom(spec) ==
  {SubSeq(spec \o Tail(spec), 1, n) : n \in 0..(2 * Len(spec) - 1)} \ {spec}

overwriteResultSpec(db, row, payload) ==
  [ok |-> TRUE, ret |-> 1,
   db |-> [db EXCEPT !.test_runs =
             Restrict(@, (DOMAIN @) \ {row})
               (+) SetToBag({[row EXCEPT !.result_spec = payload]})]]

\* A writer other than createTestRun replaces the payload of one stored run,
\* while every payload is still as createTestRun wrote it.
OverwriteResultSpec(row, payload) ==
  /\ row \in DOMAIN test_runs
  /\ row.result_spec # NULL
  /\ \A r \in DOMAIN test_runs :
       r.result_spec = NULL \/ Len(r.result_spec) = 1 + BLUEPRINT_ID_BUFFER_SIZE
  /\ Record("overwriteResultSpec", overwriteResultSpec(DB, row, payload), 0, NoRun, 0)
  /\ UNCHANGED maintain

NextOverwrite ==
  \/ \E testRun \in RerunFeed : CreateTestRun(testRun, 0)
  \/ \E cutoff \in 0..MaxTime : MarkTestFlakesSince(cutoff)
  \/ \E row \in DOMAIN test_runs :
       \E payload \in PayloadsFrom(row.result_spec) : OverwriteResultSpec(row, payload)

SpecOverwrite == Init /\ [][NextOverwrite]_vars

\* ------------------------------------------------- the codec on its own
\* Every results list of at most MaxCodecLen results over Titles.
ResultLists == UNION {[1..n -> TestResults] : n \in 0..MaxCodecLen}

\* The member ids of a results list as the database returns them.
MemberIDsOf(results) ==
  [i \in DOMAIN results |-> toInt64(deriveBlueprintIDForTestBlueprint(results[i].title))]

InitCodec ==
  /\ InitTables
  /\ codec \in {[CodecIdle EXCEPT !.pc = "input", !.results = r] : r \in ResultLists}

Encode ==
  /\ codec.pc = "input"
  /\ codec' = [codec EXCEPT !.pc = "encoded", !.spec = encodeFromResults(codec.results)]
  /\ UNCHANGED <<test_blueprints, test_run_blueprints, test_runs, test_flakes,
                 last, history, pool, sessions, maintain, caches>>

Decode ==
  /\ codec.pc = "encoded"
  /\ LET res == decodeIDResults(codec.spec, MemberIDsOf(codec.results))
     IN  codec' = [codec EXCEPT !.pc = "decoded", !.ok = res.ok, !.map = res.map]
  /\ UNCHANGED <<test_blueprints, test_run_blueprints, test_runs, test_flakes,
                 last, history, pool, sessions, maintain, caches>>

\* createTestRun derives the id of the run's blueprint from blueprintIDs,
\* which it goes on to use.  The inputs are those whose digest is tabulated.
DeriveListID ==
  /\ codec.pc = "input"
  /\ \E e \in ShakeTable : e[1] = ConcatBuffers(BlueprintIDsOf(codec.results))
  /\ codec' = [codec EXCEPT !.pc = "derived",
                            !.id = deriveBlueprintIDForList(BlueprintIDsOf(codec.results)),
                            !.ids = SortCopy(BlueprintIDsOf(codec.results)).caller]
  /\ UNCHANGED <<test_blueprints, test_run_blueprints, test_runs, test_flakes,
                 last, history, pool, sessions, maintain, caches>>

NextCodec == Encode \/ Decode \/ DeriveListID

SpecCodec == InitCodec /\ [][NextCodec]_vars

\* ------------------------------------------- DB.transaction and the pool
\* Variant of transactionNext that releases the client at the end of the
\* catch block instead of in a finally block.
transactionNextReleaseInCatch(pc, throws) ==
  CASE pc = "BEGIN" -> IF throws THEN "ROLLBACK" ELSE "closure"
    [] pc = "closure" -> IF throws THEN "ROLLBACK" ELSE "COMMIT"
    [] pc = "COMMIT" -> IF throws THEN "ROLLBACK" ELSE "finally"
    [] pc = "ROLLBACK" -> IF throws THEN "returned" ELSE "finally"

\* The statement DB.transaction awaits after the one at pc has returned or
\* thrown: BEGIN, the closure and COMMIT are inside the try, ROLLBACK is the
\* catch block, and the finally block follows on every path.
transactionNext(pc, throws) ==
  CASE pc = "BEGIN" -> IF throws THEN "ROLLBACK" ELSE "closure"
    [] pc = "closure" -> IF throws THEN "ROLLBACK" ELSE "COMMIT"
    [] pc = "COMMIT" -> IF throws THEN "ROLLBACK" ELSE "finally"
    [] pc = "ROLLBACK" -> "finally"

SetCall(c, call) == pool' = [pool EXCEPT !.calls[c] = call]

\* createTestRun or deleteTestRunsBefore calls DB.transaction.
Call(c, op) ==
  /\ pool.calls[c].pc = "idle"
  /\ SetCall(c, [NoCall EXCEPT !.op = op, !.pc = "connect"])
  /\ UNCHANGED <<test_blueprints, test_run_blueprints, test_runs, test_flakes,
                 last, history, codec, sessions, maintain, caches>>

\* await pool.connect(), before the try: it resolves with a client that is
\* not checked out, waits while there is none, or rejects.
Connect(c, throws) ==
  /\ pool.calls[c].op \in {"createTestRun", "deleteTestRunsBefore"}
  /\ pool.calls[c].pc = "connect"
  /\ IF throws
       THEN SetCall(c, [pool.calls[c] EXCEPT !.pc = "returned", !.thrown = {"connect"}])
       ELSE \E k \in pool.idle :
              pool' = [pool EXCEPT !.idle = @ \ {k},
                                   !.calls[c].client = k,
                                   !.calls[c].pc = "BEGIN"]
  /\ UNCHANGED <<test_blueprints, test_run_blueprints, test_runs, test_flakes,
                 last, history, codec, sessions, maintain, caches>>

\* One of the awaited steps on the client returns or throws.
Statement(c, throws) ==
  /\ pool.calls[c].pc \in {"BEGIN", "closure", "COMMIT", "ROLLBACK"}
  /\ SetCall(c, [pool.calls[c] EXCEPT
                    !.pc = transactionNext(pool.calls[c].pc, throws),
                    !.thrown = IF throws THEN @ \cup {pool.calls[c].pc} ELSE @])
  /\ UNCHANGED <<test_blueprints, test_run_blueprints, test_runs, test_flakes,
                 last, history, codec, sessions, maintain, caches>>

\* finally { client.release() }, after which the call returns or rethrows.
Release(c) ==
  /\ pool.calls[c].pc = "finally"
  /\ pool' = [pool EXCEPT !.idle = @ \cup {pool.calls[c].client},
                          !.calls[c].released = @ + 1,
                          !.calls[c].pc = "returned"]
  /\ UNCHANGED <<test_blueprints, test_run_blueprints, test_runs, test_flakes,
                 last, history, codec, sessions, maintain, caches>>

\* The caller has the outcome and may call again.
Returned(c) ==
  /\ pool.calls[c].pc = "returned"
  /\ SetCall(c, NoCall)
  /\ UNCHANGED <<test_blueprints, test_run_blueprints, test_runs, test_flakes,
                 last, history, codec, sessions, maintain, caches>>

NextPool ==
  \E c \in Callers :
    \/ \E op \in {"createTestRun", "deleteTestRunsBefore"} : Call(c, op)
    \/ \E throws \in BOOLEAN : Connect(c, throws)
    \/ \E throws \in BOOLEAN : Statement(c, throws)
    \/ Release(c)
    \/ Returned(c)

SpecPool == Init /\ [][NextPool]_vars

\* --------------------------------------- transactions at read committed
\* Two sessions run createTestRun and deleteTestRunsBefore statement by
\* statement.  Every statement reads the committed rows of the moment it
\* runs together with the rows its own transaction has written.
TableNames == {"test_blueprints", "test_run_blueprints", "test_runs", "test_flakes"}

DBPlus(a, b) == [t \in TableNames |-> a[t] (+) b[t]]
DBMinus(a, b) == [t \in TableNames |-> a[t] (-) b[t]]

\* What the statements of a session see.
ViewOf(rec) == DBPlus(DBMinus(DB, rec.del), rec.ins)

\* The runs handed to createTestRun while another transaction is open, and
\* the cutoffs of a purge that runs beside them.
ConcurrentFeed ==
  {testRun \in Feed :
     \/ testRun.results \in {<<P("boot")>>, <<P("a"), P("boot")>>,
                             <<P("boot"), P("a")>>, <<>>}
     \/ testRun.commitId = <<203>>}
ConcurrentCutoffs == {2, MaxTime + 1}

\* The columns of the unique index of a table.
KeyOf(table, row) ==
  IF table = "test_runs" THEN <<row.source, row.ext_id>> ELSE <<row.id>>

\* The row the session's INSERT is about to write, as <<table, row>>; <<>>
\* when the session is not at an INSERT of a row.
PendingInsert(rec) ==
  IF rec.op # "createTestRun" THEN <<>>
  ELSE IF rec.pc = "test_blueprints"
    THEN IF rec.i \in DOMAIN DerivedOf(rec.run).testBlueprints
           THEN <<"test_blueprints", DerivedOf(rec.run).testBlueprints[rec.i]>>
           ELSE <<>>
  ELSE IF rec.pc = "test_run_blueprints"
    THEN <<"test_run_blueprints", DerivedOf(rec.run).testRunBlueprintRow>>
  ELSE IF rec.pc = "test_runs"
    THEN <<"test_runs", DerivedOf(rec.run).testRunRow>>
  ELSE <<>>

\* Variant of HoldersOf for tables without unique indexes: no INSERT waits.
HoldersOfNoIndex(s, pending) == {}

\* The other sessions that hold a row of this key inserted or deleted and
\* not yet committed: an INSERT ... ON CONFLICT waits for them to end.
HoldersOf(s, pending) ==
  IF pending = <<>> THEN {}
  ELSE {o \in Sessions \ {s} :
          \E r \in (DOMAIN sessions[o].ins[pending[1]])
                     \cup (DOMAIN sessions[o].del[pending[1]]) :
            KeyOf(pending[1], r) = KeyOf(pending[1], pending[2])}

WaitsFor(s) == HoldersOf(s, PendingInsert(sessions[s]))

\* The session's uncommitted rows after a statement that took view to db.
Written(rec, view, db) ==
  [rec EXCEPT !.ins = DBPlus(DBMinus(@, DBMinus(view, db)), DBMinus(db, view)),
              !.del = DBPlus(@, DBMinus(DBMinus(view, db), rec.ins))]

\* catch: ROLLBACK discards what the transaction wrote, and the call throws.
Aborted(rec) == [rec EXCEPT !.pc = "aborted", !.ins = EmptyDB, !.del = EmptyDB]

\* A statement has ended with res on view: the session goes on to pc, or
\* its transaction is rolled back when the statement threw.
AfterStatement(rec, view, res, pc) ==
  IF res.ok THEN [Written(rec, view, res.db) EXCEPT !.pc = pc] ELSE Aborted(rec)

\* A step of session s that commits nothing.
SessionStep(s, rec) ==
  /\ sessions' = [sessions EXCEPT ![s] = rec]
  /\ UNCHANGED <<test_blueprints, test_run_blueprints, test_runs, test_flakes,
                 last, history, codec, pool, maintain, caches>>

\* createTestRun: BEGIN.
BeginCreateTestRun(s, testRun) ==
  /\ sessions[s].pc = "idle"
  /\ SessionStep(s, [NoSession EXCEPT !.op = "createTestRun", !.pc = "test_blueprints",
                                      !.run = testRun, !.i = 1, !.pre = DB])

\* The VALUES row i of INSERT INTO test_blueprints; the statement is a
\* syntax error when there is no row.
InsertTestBlueprintsRowStep(s) ==
  LET rec == sessions[s]
      rows == DerivedOf(rec.run).testBlueprints
      Insert(view) ==
        IF rows = <<>> THEN Failed(view)
        ELSE Ok([view EXCEPT !.test_blueprints = InsertTestBlueprintRow(@, rows[rec.i])])
      Step(view) ==
        AfterStatement([rec EXCEPT !.i = @ + 1], view, Insert(view),
                       IF rec.i < Len(rows) THEN "test_blueprints"
                       ELSE "test_run_blueprints")
  IN  /\ rec.op = "createTestRun" /\ rec.pc = "test_blueprints"
      /\ WaitsFor(s) = {}
      /\ SessionStep(s, Step(ViewOf(rec)))

InsertTestRunBlueprintStep(s) ==
  LET rec == sessions[s]
      Step(view) ==
        AfterStatement(rec, view,
                       InsertTestRunBlueprint(view, DerivedOf(rec.run).testRunBlueprintRow),
                       "test_runs")
  IN  /\ rec.op = "createTestRun" /\ rec.pc = "test_run_blueprints"
      /\ WaitsFor(s) = {}
      /\ SessionStep(s, Step(ViewOf(rec)))

InsertTestRunStep(s) ==
  LET rec == sessions[s]
      Step(view) ==
        AfterStatement(rec, view, InsertTestRun(view, DerivedOf(rec.run).testRunRow),
                       "COMMIT")
  IN  /\ rec.op = "createTestRun" /\ rec.pc = "test_runs"
      /\ WaitsFor(s) = {}
      /\ SessionStep(s, Step(ViewOf(rec)))

\* Two sessions wait for each other: the database ends one of them with a
\* deadlock error, and its transaction is rolled back.
DeadlockAbort(s) ==
  /\ \E o \in WaitsFor(s) : s \in WaitsFor(o)
  /\ SessionStep(s, Aborted(sessions[s]))

\* deleteTestRunsBefore: BEGIN.
BeginDeleteTestRunsBefore(s, cutoff) ==
  /\ sessions[s].pc = "idle"
  /\ SessionStep(s, [NoSession EXCEPT !.op = "deleteTestRunsBefore", !.pc = "candidates",
                                      !.cutoff = cutoff, !.pre = DB])

SelectCandidatesStep(s) ==
  LET rec == sessions[s]
  IN  /\ rec.op = "deleteTestRunsBefore" /\ rec.pc = "candidates"
      /\ SessionStep(s, [rec EXCEPT !.pc = "test_flakes",
                           !.rows = OrphanedTestRunBlueprints(ViewOf(rec), rec.cutoff)])

DeleteFlakesStep(s) ==
  LET rec == sessions[s]
      Step(view) ==
        AfterStatement(rec, view, DeleteFlakesOfExpiredRuns(view, rec.cutoff), "test_runs")
  IN  /\ rec.op = "deleteTestRunsBefore" /\ rec.pc = "test_flakes"
      /\ SessionStep(s, Step(ViewOf(rec)))

\* The DELETE of the expired runs; the blueprint branch is taken when the
\* first query returned a row.
DeleteRunsStep(s) ==
  LET rec == sessions[s]
      Step(view) ==
        AfterStatement([rec EXCEPT !.ret = ExpiredRowCount(view, rec.cutoff)], view,
                       DeleteExpiredRuns(view, rec.cutoff),
                       IF rec.rows = {} THEN "COMMIT" ELSE "scan")
  IN  /\ rec.op = "deleteTestRunsBefore" /\ rec.pc = "test_runs"
      /\ SessionStep(s, Step(ViewOf(rec)))

\* The streamed scan and the loop over it; the DELETE of test blueprints is
\* skipped when the set has become empty.
ScanStep(s) ==
  LET rec == sessions[s]
      Step(remaining) ==
        [rec EXCEPT !.remaining = remaining,
                    !.pc = IF remaining = {} THEN "test_run_blueprints"
                           ELSE "test_blueprints"]
  IN  /\ rec.op = "deleteTestRunsBefore" /\ rec.pc = "scan"
      /\ SessionStep(s, Step(EliminateReferenced(
                               PotentiallyOrphaned(rec.rows),
                               StreamedRunBlueprints(ViewOf(rec), OrphanedIDsParam(rec.rows)))))

DeleteTestBlueprintsStep(s) ==
  LET rec == sessions[s]
      Step(view) ==
        AfterStatement(rec, view, DeleteTestBlueprints(view, rec.remaining),
                       "test_run_blueprints")
  IN  /\ rec.op = "deleteTestRunsBefore" /\ rec.pc = "test_blueprints"
      /\ SessionStep(s, Step(ViewOf(rec)))

\* The DELETE of the candidate run blueprints.  It waits while another
\* session holds an uncommitted run that references a row it deletes.
DeleteTestRunBlueprintsStep(s) ==
  LET rec == sessions[s]
      Step(view) ==
        AfterStatement(rec, view,
                       DeleteTestRunBlueprints(view, OrphanedIDsParam(rec.rows)), "COMMIT")
  IN  /\ rec.op = "deleteTestRunsBefore" /\ rec.pc = "test_run_blueprints"
      /\ ~\E o \in Sessions \ {s} : \E r \in DOMAIN sessions[o].ins.test_runs :
            EqAny(r.blueprint_id, OrphanedIDsParam(rec.rows))
      /\ SessionStep(s, Step(ViewOf(rec)))

\* COMMIT: the rows the transaction wrote become the committed rows.
CommitStep(s) ==
  /\ sessions[s].pc = "COMMIT"
  /\ Install(ViewOf(sessions[s]))
  /\ sessions' = [sessions EXCEPT ![s] = [@ EXCEPT !.pc = "committed",
                                             !.ins = EmptyDB, !.del = EmptyDB]]
  /\ UNCHANGED <<last, history, codec, pool, maintain, caches>>

\* Every call has returned or thrown: the callers go on to their next calls.
NextCalls ==
  /\ \A s \in Sessions : sessions[s].pc \in {"idle", "committed", "aborted"}
  /\ \E s \in Sessions : sessions[s].pc # "idle"
  /\ sessions' = NoSessions
  /\ UNCHANGED <<test_blueprints, test_run_blueprints, test_runs, test_flakes,
                 last, history, codec, pool, maintain, caches>>

\* Session 1 is a maintainer, which purges and ingests; session 2 is a
\* collector loop or another writer, which ingests.
NextConcurrent ==
  \/ \E s \in Sessions, testRun \in ConcurrentFeed : BeginCreateTestRun(s, testRun)
  \/ \E cutoff \in ConcurrentCutoffs : BeginDeleteTestRunsBefore(1, cutoff)
  \/ \E s \in Sessions :
       \/ InsertTestBlueprintsRowStep(s)
       \/ InsertTestRunBlueprintStep(s)
       \/ InsertTestRunStep(s)
       \/ DeadlockAbort(s)
       \/ SelectCandidatesStep(s)
       \/ DeleteFlakesStep(s)
       \/ DeleteRunsStep(s)
       \/ ScanStep(s)
       \/ DeleteTestBlueprintsStep(s)
       \/ DeleteTestRunBlueprintsStep(s)
       \/ CommitStep(s)
  \/ NextCalls

SpecConcurrent == Init /\ [][NextConcurrent]_vars

\* ------------------------------------------------ a purge on its own
\* The maintainer's purge before its collectors start: the statements of
\* deleteTestRunsBefore one at a time on session 1, with no other session,
\* between calls of createTestRun and markTestFlakesSince that have ended.
SpecIsolatedPurge ==
  /\ Init
  /\ [][\/ /\ sessions[1].pc = "idle"
           /\ \/ \E testRun \in Feed : CreateTestRun(testRun, 0)
              \/ \E cutoff \in 0..MaxTime : MarkTestFlakesSince(cutoff)
        \/ \E cutoff \in 1..(MaxTime + 1) : BeginDeleteTestRunsBefore(1, cutoff)
        \/ SelectCandidatesStep(1)
        \/ DeleteFlakesStep(1)
        \/ DeleteRunsStep(1)
        \/ ScanStep(1)
        \/ DeleteTestBlueprintsStep(1)
        \/ DeleteTestRunBlueprintsStep(1)
        \/ CommitStep(1)
        \/ NextCalls]_vars

\* ------------------------------------------------ the flake watermark
\* getLatestTestFlakeTimestamp: MAX(timestamp) over test_flakes LEFT JOIN
\* test_runs; the one row of the aggregate holds NULL when there is no flake.
FlaggedRuns(db) ==
  {r \in DOMAIN db.test_runs :
     \E f \in DOMAIN db.test_flakes :
       r.source = f.test_run_source /\ r.ext_id = f.test_run_ext_id}

getLatestTestFlakeTimestamp(db) ==
  IF FlaggedRuns(db) = {} THEN NULL
  ELSE Max({r.timestamp : r \in FlaggedRuns(db)})

\* The watermark a caller passes: the timestamp of the latest recorded
\* flake, or the retention cutoff, which is before every run, if there is
\* none.
Watermark(db) ==
  IF FlaggedRuns(db) = {} THEN 0 ELSE getLatestTestFlakeTimestamp(db)

MarkTestFlakesSinceWatermark == MarkTestFlakesSince(Watermark(DB))

\* Collectors ingest runs and a flake detector calls markTestFlakesSince
\* with the watermark.
SpecWatermark ==
  /\ Init
  /\ [][\/ \E testRun \in Feed \cup LateFailureFeed : CreateTestRun(testRun, 0)
        \/ MarkTestFlakesSinceWatermark]_vars

\* A call of the detector at the watermark that changes last.  In
\* SpecWatermark only such a call leaves last.op = "markTestFlakesSince"; a
\* call that returns what the call before it returned, on an unchanged
\* database, is a stuttering step.
MarkTestFlakesSinceWatermarkCalled ==
  \E ok \in BOOLEAN, ret \in 0..MaxFlakes :
    last' = [op |-> "markTestFlakesSince", ok |-> ok, ret |-> ret,
             cutoff |-> Watermark(DB), run |-> NoRun, failAt |-> 0,
             wasIngestOnly |-> history.ingestOnly]

\* The detector is called again and again, between further ingests.
SpecWatermarkFair ==
  SpecWatermark /\ WF_last(MarkTestFlakesSinceWatermarkCalled)

\* ---------------------------------------------- the maintenance cycle

\* A comparison that never reports an instant as earlier than another.
isAscendingNever(a, b) == FALSE

\* isAscending(a, b): instant a is strictly before instant b.
isAscending(a, b) == a < b

\* SELECT MAX(timestamp) FROM test_runs WHERE source = $1: one row, holding
\* NULL when the source has no run.  rows[0]?.[0] is then null, which is not
\* === undefined, so the function returns null.
getLatestTestRunTimestampForSource(db, source) ==
  IF {r \in DOMAIN db.test_runs : r.source = source} = {} THEN NULL
  ELSE Max({r.timestamp : r \in {q \in DOMAIN db.test_runs : q.source = source}})

\* SELECT 1 FROM test_runs WHERE source = $1 AND ext_id = $2; rowCount > 0.
checkTestRunExistsById(db, id) ==
  \E r \in DOMAIN db.test_runs : r.source = id.source /\ r.ext_id = id.ext_id

\* The number of AppVeyor projects configured (APPVEYOR_PROJECT_SLUGS).
NumProjects == 2

\* construct.ts and earlier cycles: the database a cycle starts from is built
\* by ingests.
MaintainConstruct ==
  /\ maintain.pc = "idle"
  /\ \E testRun \in Feed \cup LateFailureFeed :
       Record("createTestRun", Returning(createTestRun(DB, testRun, 0), 0),
              0, testRun, 0)
  /\ UNCHANGED maintain

\* tests(), up to Promise.all: expiredCutoff = now - TEST_RUN_LIFETIME and
\* await deleteTestRunsBefore(expiredCutoff).  A purge that throws rejects
\* tests(); otherwise the two ingest loops start, the CircleCI one with
\* expiredCutoff as its cutoff.
MaintainPurge ==
  /\ maintain.pc = "idle"
  /\ \E expiredCutoff \in 1..MaxTime :
       /\ Record("deleteTestRunsBefore",
                 deleteTestRunsBefore(DB, expiredCutoff, 0),
                 expiredCutoff, NoRun, 0)
       /\ maintain' =
            IF deleteTestRunsBefore(DB, expiredCutoff, 0).ok
            THEN [MaintainIdle EXCEPT
                    !.pc = "ingest", !.expiredCutoff = expiredCutoff,
                    !.purged = deleteTestRunsBefore(DB, expiredCutoff, 0).ret > 0,
                    !.appveyor.pc = "start",
                    !.circleci = [pc |-> "fetch", cutoff |-> expiredCutoff,
                                  at |-> MaxTime]]
            ELSE [MaintainIdle EXCEPT !.pc = "failed",
                                      !.expiredCutoff = expiredCutoff]

\* The AppVeyor loop reads its cutoff: the latest stored AppVeyor timestamp.
\* The function never returns undefined, so the early return is not taken;
\* with no AppVeyor run stored the cutoff is null.
AppVeyorLatest ==
  /\ maintain.pc = "ingest"
  /\ maintain.appveyor.pc = "start"
  /\ maintain' =
       [maintain EXCEPT !.appveyor =
          [pc |-> "fetch",
           cutoffIsNull |-> {r \in DOMAIN test_runs : r.source = "appveyor"} = {},
           cutoff |-> IF {r \in DOMAIN test_runs : r.source = "appveyor"} = {}
                      THEN 0
                      ELSE getLatestTestRunTimestampForSource(DB, "appveyor"),
           project |-> 1, at |-> MaxTime]]
  /\ UNCHANGED <<test_blueprints, test_run_blueprints, test_runs, test_flakes,
                 last, history, codec, pool, sessions, caches>>

\* The AppVeyor fetcher leaves the history of one project: it goes on with
\* the next project, or the loop is done.
AppVeyorNextProject(m) ==
  IF m.appveyor.project < NumProjects
  THEN [m EXCEPT !.appveyor.project = @ + 1, !.appveyor.at = MaxTime]
  ELSE [m EXCEPT !.appveyor.pc = "done"]

\* One createTestRun of an ingest loop: the loop goes on from the item at
\* time at, or the call throws and Promise.all rejects.
MaintainIngest(testRun, loop, at) ==
  /\ Record("createTestRun", Returning(createTestRun(DB, testRun, 0), 0),
            0, testRun, 0)
  /\ maintain' =
       IF createTestRun(DB, testRun, 0).ok
       THEN [maintain EXCEPT ![loop].at = at,
                             !.ingested = @ \cup {testRun.id.source}]
       ELSE [maintain EXCEPT !.pc = "failed"]

\* buildHistoryByUpdatedDesc presents the next build, updated at t, no later
\* than the build before it.  Temporal.Instant.compare with a null cutoff
\* throws; a build updated before the cutoff ends the project; a build that
\* has not concluded or has no test job is skipped; any other build is
\* yielded with timestamp = updated and handed to createTestRun.
AppVeyorBuild ==
  /\ maintain.pc = "ingest"
  /\ maintain.appveyor.pc = "fetch"
  /\ \E t \in 1..maintain.appveyor.at :
       \/ /\ maintain' =
                IF maintain.appveyor.cutoffIsNull
                THEN [maintain EXCEPT !.pc = "failed"]
                ELSE IF isAscending(t, maintain.appveyor.cutoff)
                THEN AppVeyorNextProject(maintain)
                ELSE [maintain EXCEPT !.appveyor.at = t]
          /\ UNCHANGED <<test_blueprints, test_run_blueprints, test_runs,
                         test_flakes, last, history, codec, pool, sessions,
                         caches>>
       \/ /\ ~maintain.appveyor.cutoffIsNull
          /\ ~isAscending(t, maintain.appveyor.cutoff)
          /\ \E testRun \in Feed \cup LateFailureFeed :
               /\ testRun.id.source = "appveyor"
               /\ testRun.timestamp = t
               /\ MaintainIngest(testRun, "appveyor", t)

\* The history of the project has no further build.
AppVeyorExhausted ==
  /\ maintain.pc = "ingest"
  /\ maintain.appveyor.pc = "fetch"
  /\ maintain' = AppVeyorNextProject(maintain)
  /\ UNCHANGED <<test_blueprints, test_run_blueprints, test_runs, test_flakes,
                 last, history, codec, pool, sessions, caches>>

\* pipelinesByCreationDesc presents the next pipeline, created at c, no later
\* than the pipeline before it.  A pipeline created before the cutoff ends
\* the loop.  Otherwise a job of it is looked at, started no earlier than its
\* pipeline was created: skipped when it is not collected, when its id is
\* stored, when it started before the cutoff or when it reports no tests; any
\* other job is yielded with timestamp = started_at, passes the existence
\* check of maintain.ts and is handed to createTestRun.
CircleCIPipeline ==
  /\ maintain.pc = "ingest"
  /\ maintain.circleci.pc = "fetch"
  /\ \E c \in 1..maintain.circleci.at :
       \/ /\ maintain' =
                IF isAscending(c, maintain.circleci.cutoff)
                THEN [maintain EXCEPT !.circleci.pc = "done"]
                ELSE [maintain EXCEPT !.circleci.at = c]
          /\ UNCHANGED <<test_blueprints, test_run_blueprints, test_runs,
                         test_flakes, last, history, codec, pool, sessions,
                         caches>>
       \/ /\ ~isAscending(c, maintain.circleci.cutoff)
          /\ \E testRun \in Feed \cup LateFailureFeed :
               /\ testRun.id.source = "circleci"
               /\ testRun.timestamp >= c
               /\ ~checkTestRunExistsById(DB, testRun.id)
               /\ ~isAscending(testRun.timestamp, maintain.circleci.cutoff)
               /\ Len(testRun.results) # 0
               /\ MaintainIngest(testRun, "circleci", c)

\* The service has no further pipeline.
CircleCIExhausted ==
  /\ maintain.pc = "ingest"
  /\ maintain.circleci.pc = "fetch"
  /\ maintain' = [maintain EXCEPT !.circleci.pc = "done"]
  /\ UNCHANGED <<test_blueprints, test_run_blueprints, test_runs, test_flakes,
                 last, history, codec, pool, sessions, caches>>

\* Promise.all resolves when both loops have returned.
MaintainDone ==
  /\ maintain.pc = "ingest"
  /\ maintain.appveyor.pc = "done"
  /\ maintain.circleci.pc = "done"
  /\ maintain' = [maintain EXCEPT !.pc = "done"]
  /\ UNCHANGED <<test_blueprints, test_run_blueprints, test_runs, test_flakes,
                 last, history, codec, pool, sessions, caches>>

\* The script is run again.
MaintainAgain ==
  /\ maintain.pc \in {"done", "failed"}
  /\ maintain' = MaintainIdle
  /\ UNCHANGED <<test_blueprints, test_run_blueprints, test_runs, test_flakes,
                 last, history, codec, pool, sessions, caches>>

SpecMaintain ==
  /\ Init
  /\ [][\/ MaintainConstruct
        \/ MaintainPurge
        \/ AppVeyorLatest
        \/ AppVeyorBuild
        \/ AppVeyorExhausted
        \/ CircleCIPipeline
        \/ CircleCIExhausted
        \/ MaintainDone
        \/ MaintainAgain]_vars

\* ------------------------------------------------------------- DB.stream

\* A consumer starts iterating DB.stream(...): the generator body runs up to
\* await pool.connect().
StreamCall(c) ==
  /\ pool.calls[c].pc = "idle"
  /\ SetCall(c, [NoCall EXCEPT !.op = "stream", !.pc = "connect"])
  /\ UNCHANGED <<test_blueprints, test_run_blueprints, test_runs, test_flakes,
                 last, history, codec, sessions, maintain, caches>>

\* await pool.connect() of DB.stream: it resolves with a client that is not
\* checked out, waits while there is none, or rejects.  With a client the
\* generator builds the QueryStream, hands it to client.query and is at
\* yield* query.
StreamConnect(c, throws) ==
  /\ pool.calls[c].op = "stream"
  /\ pool.calls[c].pc = "connect"
  /\ IF throws
       THEN SetCall(c, [pool.calls[c] EXCEPT !.pc = "returned", !.thrown = {"connect"}])
       ELSE \E k \in pool.idle :
              pool' = [pool EXCEPT !.idle = @ \ {k},
                                   !.calls[c].client = k,
                                   !.calls[c].pc = "query"]
  /\ UNCHANGED <<test_blueprints, test_run_blueprints, test_runs, test_flakes,
                 last, history, codec, sessions, maintain, caches>>

\* yield* query hands a row to the consumer; the generator is suspended at
\* the yield* while the consumer's loop body runs.
StreamRow(c) ==
  /\ pool.calls[c].pc = "query"
  /\ SetCall(c, [pool.calls[c] EXCEPT !.pc = "yielded"])
  /\ UNCHANGED <<test_blueprints, test_run_blueprints, test_runs, test_flakes,
                 last, history, codec, sessions, maintain, caches>>

\* The query stream ends: yield* completes and the generator goes on to
\* client.release().
StreamExhausted(c) ==
  /\ pool.calls[c].pc \in {"query", "yielded"}
  /\ SetCall(c, [pool.calls[c] EXCEPT !.pc = "release"])
  /\ UNCHANGED <<test_blueprints, test_run_blueprints, test_runs, test_flakes,
                 last, history, codec, sessions, maintain, caches>>

\* client.release(), the last statement of the generator.
StreamRelease(c) ==
  /\ pool.calls[c].pc = "release"
  /\ pool' = [pool EXCEPT !.idle = @ \cup {pool.calls[c].client},
                          !.calls[c].released = @ + 1,
                          !.calls[c].pc = "returned"]
  /\ UNCHANGED <<test_blueprints, test_run_blueprints, test_runs, test_flakes,
                 last, history, codec, sessions, maintain, caches>>

\* The consumer leaves its loop (break, return or a throw in the body): for
\* await calls return() on the generator, which forwards it to the query
\* stream and completes at the yield*.  No try/finally encloses the yield*,
\* so the statements after it are not run.
StreamConsumerStops(c) ==
  /\ pool.calls[c].pc = "yielded"
  /\ SetCall(c, [pool.calls[c] EXCEPT !.pc = "returned", !.thrown = {"return"}])
  /\ UNCHANGED <<test_blueprints, test_run_blueprints, test_runs, test_flakes,
                 last, history, codec, sessions, maintain, caches>>

\* The query fails while streaming: the row the consumer asks for rejects,
\* yield* rethrows inside the generator and the error leaves it.
StreamQueryFails(c) ==
  /\ pool.calls[c].pc \in {"query", "yielded"}
  /\ SetCall(c, [pool.calls[c] EXCEPT !.pc = "returned", !.thrown = {"query"}])
  /\ UNCHANGED <<test_blueprints, test_run_blueprints, test_runs, test_flakes,
                 last, history, codec, sessions, maintain, caches>>

SpecStream ==
  /\ Init
  /\ [][\/ NextPool
        \/ \E c \in Callers :
             \/ StreamCall(c)
             \/ \E throws \in BOOLEAN : StreamConnect(c, throws)
             \/ StreamRow(c)
             \/ StreamExhausted(c)
             \/ StreamRelease(c)
             \/ StreamConsumerStops(c)
             \/ StreamQueryFails(c)]_vars

\* ------------------------------------------------- the PR-status caches

\* const CACHE_DURATION = { hours: 12 }.
CACHE_DURATION == 12

\* A load that starts a computation whenever the cache holds no result,
\* a pending Promise included.
loadIgnoringPromise(cache, now, n) ==
  IF cache.kind = "result" /\ now < cache.expires
  THEN [cache |-> cache, starts |-> FALSE, computation |-> cache.result,
        state |-> "fulfilled"]
  ELSE [cache |-> [kind |-> "promise", state |-> "pending", result |-> n,
                   expires |-> 0],
        starts |-> TRUE, computation |-> n, state |-> "pending"]

\* The synchronous part of load (+page.server.ts) at hour now, where n is the
\* number of the computation it would start: a Promise in the cache is
\* returned as it is; a result is returned while compare(now, expires) < 0;
\* otherwise the cache is cleared, countPRStatusesByDateAsc is called and the
\* cache holds its Promise.
load(cache, now, n) ==
  IF cache.kind = "promise"
  THEN [cache |-> cache, starts |-> FALSE, computation |-> cache.result,
        state |-> cache.state]
  ELSE IF cache.kind = "result" /\ now < cache.expires
  THEN [cache |-> cache, starts |-> FALSE, computation |-> cache.result,
        state |-> "fulfilled"]
  ELSE [cache |-> [kind |-> "promise", state |-> "pending", result |-> n,
                   expires |-> 0],
        starts |-> TRUE, computation |-> n, state |-> "pending"]

\* PRStatusAnalysis.get (web-svc main.ts): the same three cases, with
\* compute() as the computation.
get(cache, now, n) ==
  IF cache.kind = "promise"
  THEN [cache |-> cache, starts |-> FALSE, computation |-> cache.result,
        state |-> cache.state]
  ELSE IF cache.kind = "result" /\ now < cache.expires
  THEN [cache |-> cache, starts |-> FALSE, computation |-> cache.result,
        state |-> "fulfilled"]
  ELSE [cache |-> [kind |-> "promise", state |-> "pending", result |-> n,
                   expires |-> 0],
        starts |-> TRUE, computation |-> n, state |-> "pending"]

\* A request calls load (who = "page") or PRStatusAnalysis.get (who = "svc").
Request(who) ==
  /\ LET r == IF who = "page"
              THEN load(caches.page, caches.now, caches.started.page + 1)
              ELSE get(caches.svc, caches.now, caches.started.svc + 1)
     IN  /\ r.starts => caches.started[who] < MaxComputations
         /\ caches' = [caches EXCEPT
              ![who] = r.cache,
              !.started[who] = IF r.starts THEN @ + 1 ELSE @,
              !.inFlight[who] = IF r.starts THEN @ + 1 ELSE @,
              !.answer = [of |-> who, seq |-> 1 - caches.answer.seq,
                          computation |-> r.computation, state |-> r.state,
                          queried |-> r.starts]]
  /\ UNCHANGED <<test_blueprints, test_run_blueprints, test_runs, test_flakes,
                 last, history, codec, pool, sessions, maintain>>

\* The computation of the page settles.  When it resolves, the callback load
\* attached with cache.then runs: cache = { result, expires: now +
\* CACHE_DURATION }.  then() was given no rejection handler: when it rejects
\* the callback does not run and cache keeps the Promise.
PageSettles(state) ==
  /\ caches.page.kind = "promise"
  /\ caches.page.state = "pending"
  /\ caches' = [caches EXCEPT
       !.page = IF state = "fulfilled"
                THEN [kind |-> "result", state |-> "none", result |-> @.result,
                      expires |-> caches.now + CACHE_DURATION]
                ELSE [@ EXCEPT !.state = "rejected"],
       !.inFlight.page = @ - 1,
       !.resolvedAt.page = IF state = "fulfilled" THEN caches.now ELSE @]
  /\ UNCHANGED <<test_blueprints, test_run_blueprints, test_runs, test_flakes,
                 last, history, codec, pool, sessions, maintain>>

\* compute() of the web service settles.  get attached nothing to the
\* Promise, so cache keeps it.
SvcSettles(state) ==
  /\ caches.svc.kind = "promise"
  /\ caches.svc.state = "pending"
  /\ caches' = [caches EXCEPT
       !.svc.state = state,
       !.inFlight.svc = @ - 1,
       !.resolvedAt.svc = IF state = "fulfilled" THEN caches.now ELSE @]
  /\ UNCHANGED <<test_blueprints, test_run_blueprints, test_runs, test_flakes,
                 last, history, codec, pool, sessions, maintain>>

\* An hour passes.
Tick ==
  /\ caches.now < MaxHours
  /\ caches' = [caches EXCEPT !.now = @ + 1]
  /\ UNCHANGED <<test_blueprints, test_run_blueprints, test_runs, test_flakes,
                 last, history, codec, pool, sessions, maintain>>

SpecCache ==
  /\ Init
  /\ [][\/ \E who \in {"page", "svc"} : Request(who)
        \/ \E state \in {"fulfilled", "rejected"} : PageSettles(state)
        \/ \E state \in {"fulfilled", "rejected"} : SvcSettles(state)
        \/ Tick]_vars

\* Time passes and requests keep arriving at the web service.
SpecCacheFair == SpecCache /\ WF_vars(Tick) /\ WF_vars(Request("svc"))

\* ------------------------------------------------------------------ claims
Cutoffs == 1..(MaxTime + 1)

TablesUnchanged ==
  /\ test_blueprints' = test_blueprints
  /\ test_run_blueprints' = test_run_blueprints
  /\ test_runs' = test_runs
  /\ test_flakes' = test_flakes

\* No test_run_blueprints row without a run, no test_blueprints row without
\* a test_run_blueprints row that lists it.
NoOrphans ==
  /\ \A b \in DOMAIN test_run_blueprints :
       \E r \in DOMAIN test_runs : r.blueprint_id = b.id
  /\ \A t \in DOMAIN test_blueprints :
       \E b \in DOMAIN test_run_blueprints : t.id \in Range(b.test_blueprint_ids)

\* The blueprints all of whose runs are older than the cutoff.
BlueprintsExpiringAt(cutoff) ==
  {b \in {r.blueprint_id : r \in DOMAIN test_runs} :
     \A r \in DOMAIN test_runs : r.blueprint_id = b => r.timestamp < cutoff}

\* C1: after a purge that commits on a database built by createTestRun calls
\* alone, no blueprint of either kind is orphaned, the candidates of the
\* purge are the blueprints all of whose runs are older than the cutoff, and
\* when no run is left all four tables are empty.
C1_PurgeLeavesNoOrphan ==
  /\ (last.op = "deleteTestRunsBefore" /\ last.ok /\ last.wasIngestOnly) =>
       /\ NoOrphans
       /\ test_runs = EmptyBag =>
            /\ test_flakes = EmptyBag
            /\ test_run_blueprints = EmptyBag
            /\ test_blueprints = EmptyBag
  /\ history.ingestOnly =>
       \A cutoff \in Cutoffs :
         {row.blueprint_id : row \in OrphanedTestRunBlueprints(DB, cutoff)}
           = BlueprintsExpiringAt(cutoff)

\* C2: in every reachable state every run's blueprint_id names a
\* test_run_blueprints row and every member id of every test_run_blueprints
\* row names a test_blueprints row.
C2_ReferentialClosure ==
  /\ \A r \in DOMAIN test_runs :
       \E b \in DOMAIN test_run_blueprints : b.id = r.blueprint_id
  /\ \A b \in DOMAIN test_run_blueprints :
       \A id \in Range(b.test_blueprint_ids) :
         \E t \in DOMAIN test_blueprints : t.id = id

\* C3: a purge that returns deletes exactly the runs older than its cutoff,
\* returns their number, and leaves the runs at or after the cutoff as they
\* were.
C3_PurgeDeletesExactlyExpiredRuns ==
  [][(last'.op = "deleteTestRunsBefore" /\ last'.ok) =>
       /\ test_runs' = Restrict(test_runs,
                         {r \in DOMAIN test_runs : r.timestamp >= last'.cutoff})
       /\ last'.ret = Cardinality({r \in DOMAIN test_runs :
                                     r.timestamp < last'.cutoff})]_vars

\* C3 witness: a purge has returned a positive count and a run whose
\* timestamp equals the cutoff is still there.
C3_Witness ==
  /\ last.op = "deleteTestRunsBefore" /\ last.ok /\ last.ret >= 1
  /\ \E r \in DOMAIN test_runs : r.timestamp = last.cutoff

\* C4: a purge that returns deletes exactly the flakes whose run is older
\* than the cutoff; a flake on a run at or after the cutoff stays.
C4_PurgeDeletesOnlyFlakesOfExpiredRuns ==
  [][(last'.op = "deleteTestRunsBefore" /\ last'.ok) =>
       test_flakes' =
         Restrict(test_flakes,
           {f \in DOMAIN test_flakes :
              \E r \in DOMAIN test_runs :
                /\ r.source = f.test_run_source /\ r.ext_id = f.test_run_ext_id
                /\ r.timestamp >= last'.cutoff})]_vars

\* C5: in every reachable database and for every run of the feed, a second
\* createTestRun of the same run changes none of the four tables.
C5_IngestIdempotent ==
  \A testRun \in Feed :
    LET once == createTestRun(DB, testRun, 0).db
    IN  createTestRun(once, testRun, 0).db = once

\* C5 witness: the last call ingested a run whose row is stored, and calling
\* it again would change nothing.
C5_Witness ==
  /\ last.op = "createTestRun" /\ last.ok
  /\ TestRunRowOf(last.run) \in DOMAIN test_runs
  /\ createTestRun(DB, last.run, 0).db = DB

\* The titles of a run, each as often as the run lists it.
MemberTitles(testRun) ==
  BagOfSeq([i \in DOMAIN testRun.results |-> testRun.results[i].title])

TitleSeq(testRun) == [i \in DOMAIN testRun.results |-> testRun.results[i].title]

\* C6: as long as only createTestRun has been called, test_blueprints holds
\* one row per title ingested, test_run_blueprints one row per member set
\* ingested (the members of a run, a title listed twice counted twice, in
\* any order), runs with the same members reference the same
\* test_run_blueprints row, and every (source, ext_id) ingested has one row
\* of test_runs.
C6_OneRowPerTitleAndMemberSet ==
  history.ingestOnly =>
    LET titles == UNION {Range(TitleSeq(run)) : run \in history.runs}
        keys == {run.id : run \in history.runs}
    IN  /\ \A t \in DOMAIN test_blueprints : test_blueprints[t] = 1
        /\ \A b \in DOMAIN test_run_blueprints : test_run_blueprints[b] = 1
        /\ \A r \in DOMAIN test_runs : test_runs[r] = 1
        /\ {t.title : t \in DOMAIN test_blueprints} = titles
        /\ Cardinality(DOMAIN test_blueprints) = Cardinality(titles)
        /\ Cardinality(DOMAIN test_run_blueprints)
             = Cardinality({MemberTitles(run) : run \in history.runs})
        /\ \A run \in history.runs :
             \E b \in DOMAIN test_run_blueprints :
               /\ BagOfSeq(b.test_blueprint_ids) = BagOfSeq(MemberIDsOf(run.results))
               /\ \A r \in DOMAIN test_runs :
                    r = TestRunRowOf(run) => r.blueprint_id = b.id
        /\ {[source |-> r.source, ext_id |-> r.ext_id] : r \in DOMAIN test_runs} = keys
        /\ Cardinality(DOMAIN test_runs) = Cardinality(keys)

\* C6 witness: two stored runs with different (source, ext_id) list the same
\* titles in different orders.
C6_Witness ==
  /\ history.ingestOnly
  /\ \E r1, r2 \in history.runs :
       /\ r1.id # r2.id
       /\ TitleSeq(r1) # TitleSeq(r2)
       /\ MemberTitles(r1) = MemberTitles(r2)
       /\ TestRunRowOf(r1) \in DOMAIN test_runs
       /\ TestRunRowOf(r2) \in DOMAIN test_runs

\* C7: a createTestRun call that throws leaves the four tables as they were;
\* one that returns has left a test_blueprints row for every title of the
\* run, the run's test_run_blueprints row and a test_runs row for its
\* (source, ext_id).
C7_IngestAllOrNothing ==
  [][last'.op = "createTestRun" =>
       IF last'.ok
         THEN /\ \A i \in DOMAIN last'.run.results :
                   \E t \in DOMAIN test_blueprints' :
                     t.title = last'.run.results[i].title
              /\ \E b \in DOMAIN test_run_blueprints' :
                   b.id = TestRunBlueprintRowOf(last'.run.results).id
              /\ \E r \in DOMAIN test_runs' :
                   /\ r.source = last'.run.id.source
                   /\ r.ext_id = last'.run.id.ext_id
         ELSE TablesUnchanged]_vars

\* C7 witness: a call has thrown at its third INSERT, after its two upserts
\* had written blueprint rows, and the run's test_run_blueprints row is not
\* in the table.
C7_Witness ==
  /\ last.op = "createTestRun" /\ ~last.ok /\ last.failAt = 3
  /\ ~\E b \in DOMAIN test_run_blueprints :
        b.id = TestRunBlueprintRowOf(last.run.results).id

\* A title that the list records once as passed and once as failed.
ConflictingDuplicates(results) ==
  \E i, j \in DOMAIN results :
    results[i].title = results[j].title /\ results[i].passed # results[j].passed

\* The decoded map gives every result of the list its recorded outcome.
DecodedAsRecorded ==
  /\ codec.ok
  /\ \A i \in DOMAIN codec.results :
       codec.map[MemberIDsOf(codec.results)[i]] = codec.results[i].passed

\* C8 as stated: for every results list, duplicate titles included, decoding
\* the encoding against the list's member ids gives every member the outcome
\* the list records for it.
C8_RoundTripAnyList == codec.pc = "decoded" => DecodedAsRecorded

\* C8 amended: the round trip holds for every results list in which no title
\* is recorded with both outcomes.
C8_RoundTrip ==
  (codec.pc = "decoded" /\ ~ConflictingDuplicates(codec.results)) => DecodedAsRecorded

\* C8 witness: a list with a title listed twice (with one outcome), holding
\* both passes and failures, has been encoded and decoded.
C8_Witness ==
  /\ codec.pc = "decoded"
  /\ ~ConflictingDuplicates(codec.results)
  /\ \E i, j \in DOMAIN codec.results :
       i # j /\ codec.results[i].title = codec.results[j].title
  /\ \E i, j \in DOMAIN codec.results :
       codec.results[i].passed /\ ~codec.results[j].passed

\* The reference encoder of C9, from the counts p and f.
PassCount(results) == Cardinality({i \in DOMAIN results : results[i].passed})
FailCount(results) == Cardinality({i \in DOMAIN results : ~results[i].passed})

IsReferenceEncoding(results, spec) ==
  LET p == PassCount(results)
      f == FailCount(results)
      tag == IF p < f THEN 1 ELSE 0
      enumerated == SelectSeq(results, LAMBDA r : r.passed = (tag = 1))
  IN  IF f = 0 THEN spec = NULL
      ELSE /\ spec # NULL
           /\ Len(spec) = 1 + 8 * Min(p, f)
           /\ spec[1] = tag
           /\ Len(enumerated) = Min(p, f)
           /\ \A k \in DOMAIN enumerated : \A j \in 1..8 :
                spec[1 + 8 * (k - 1) + j]
                  = deriveBlueprintIDForTestBlueprint(enumerated[k].title)[j]

\* C9: encodeFromResults gives the reference encoding: absent exactly when
\* nothing failed; otherwise tag 1 when p < f and 0 when f <= p, 1 + 8 min(p, f)
\* bytes, and after the tag the ids of the enumerated results in input order.
C9_EncodeIsReference ==
  codec.pc \in {"encoded", "decoded"} => IsReferenceEncoding(codec.results, codec.spec)

\* C9 witness: a list with as many passes as failures, and a title listed
\* twice, has been encoded.
C9_Witness ==
  /\ codec.pc = "encoded"
  /\ PassCount(codec.results) = FailCount(codec.results)
  /\ PassCount(codec.results) >= 1
  /\ codec.spec[1] = 0

\* Whether the test id passed in the stored run, read off its result_spec:
\* absent means passed; tag 1 lists the passes, tag 0 the failures.
PassedIn(run, id) ==
  LET spec == run.result_spec
      listed == {toInt64(SubSeq(spec, 2 + 8 * (k - 1), 1 + 8 * k)) :
                   k \in 1..((Len(spec) - 1) \div 8)}
  IN  IF spec = NULL THEN TRUE
      ELSE IF spec[1] = 1 THEN id \in listed ELSE id \notin listed

\* The flakes C10 expects of one rerun, ord[i], against the run before it
\* in its partition: for every member whose outcome changed, one row naming
\* the run in which it failed.
ExpectedFlakesOfRerun(ord, i) ==
  LET cur == ord[i]
      prev == ord[Max(EarlierInPartition(ord, i))]
      members == UNION {Range(b.test_blueprint_ids) :
                          b \in {x \in DOMAIN test_run_blueprints : x.id = cur.blueprint_id}}
      failing(id) == IF PassedIn(cur, id) THEN prev ELSE cur
  IN  SetToBag({[test_run_source |-> failing(id).source,
                 test_run_ext_id |-> failing(id).ext_id,
                 test_blueprint_id |-> id] :
                  id \in {m \in members : PassedIn(prev, m) # PassedIn(cur, m)}})

RECURSIVE ExpectedFlakes(_, _, _)
ExpectedFlakes(ord, cutoff, i) ==
  IF i = 0 THEN EmptyBag
  ELSE (IF EarlierInPartition(ord, i) # {} /\ ord[i].timestamp > cutoff
          THEN ExpectedFlakesOfRerun(ord, i) ELSE EmptyBag)
       (+) ExpectedFlakes(ord, cutoff, i - 1)

\* C10: a markTestFlakesSince call adds to test_flakes, for every rerun after
\* the watermark and every member whose outcome differs from the run before
\* it in its (blueprint_id, commit_id) partition, one row for that member
\* naming the run in which the test failed, and nothing else.
C10_FlakeAttribution ==
  [][last'.op = "markTestFlakesSince" =>
       \E ord \in TimestampOrders(DOMAIN test_runs) :
         test_flakes' = test_flakes (+) ExpectedFlakes(ord, last'.cutoff, Len(ord))]_vars

\* C11: after a markTestFlakesSince call that returned, a second call with
\* the same watermark on the unchanged runs leaves test_flakes holding the
\* rows it held after the first, each of them once.
C11_ReprocessingIdempotent ==
  (last.op = "markTestFlakesSince" /\ last.ok) =>
    \A ord \in TimestampOrders(DOMAIN test_runs) :
      markTestFlakesSince(DB, last.cutoff, ord).db.test_flakes = test_flakes

\* C12: no two rows of test_flakes carry the same
\* (test_run_source, test_run_ext_id, test_blueprint_id).
C12_FlakeTripleIsKey ==
  \A f \in DOMAIN test_flakes : CopiesIn(f, test_flakes) = 1

\* prev and cur are runs of one (blueprint_id, commit_id) partition and no
\* other run of the partition lies between them by timestamp.
ConsecutiveInPartition(prev, cur) ==
  /\ prev # cur
  /\ prev.blueprint_id = cur.blueprint_id
  /\ prev.commit_id = cur.commit_id
  /\ prev.timestamp <= cur.timestamp
  /\ ~\E r \in DOMAIN test_runs :
        /\ r.blueprint_id = cur.blueprint_id /\ r.commit_id = cur.commit_id
        /\ prev.timestamp < r.timestamp /\ r.timestamp < cur.timestamp

\* The pairs (previous, current) from which a call with watermark w may
\* derive a flake.
FlakeRelevantPairs(w) ==
  {pair \in (DOMAIN test_runs) \X (DOMAIN test_runs) :
     /\ ConsecutiveInPartition(pair[1], pair[2])
     /\ pair[2].timestamp > w
     /\ pair[1].result_spec # pair[2].result_spec}

\* C13: every row a markTestFlakesSince(w) call adds names a run of a pair
\* (previous, current) of one (blueprint_id, commit_id) partition, previous
\* immediately before current by timestamp, current.timestamp > w, with
\* differing result_specs; the first run of a partition and runs of other
\* commits or blueprints give no row.
C13_FlakesOnlyFromRelevantPairs ==
  [][last'.op = "markTestFlakesSince" =>
       \A f \in DOMAIN test_flakes' :
         CopiesIn(f, test_flakes') > CopiesIn(f, test_flakes) =>
           \E pair \in FlakeRelevantPairs(last'.cutoff) :
             \E r \in {pair[1], pair[2]} :
               /\ r.source = f.test_run_source
               /\ r.ext_id = f.test_run_ext_id
               /\ \E b \in DOMAIN test_run_blueprints :
                    /\ b.id = r.blueprint_id
                    /\ f.test_blueprint_id \in Range(b.test_blueprint_ids)]_vars

\* C13 witness: a call with a watermark of at least 1 has added a row from a
\* pair whose previous run is at or before the watermark, while a run of the
\* same blueprint on another commit is stored.
C13_Witness ==
  /\ last.op = "markTestFlakesSince" /\ last.ok /\ last.ret >= 1
  /\ last.cutoff >= 1
  /\ \E pair \in FlakeRelevantPairs(last.cutoff) :
       /\ pair[1].timestamp <= last.cutoff
       /\ \E r \in DOMAIN test_runs :
            r.blueprint_id = pair[2].blueprint_id /\ r.commit_id # pair[2].commit_id

\* C14: a second deleteTestRunsBefore with the cutoff of one that has just
\* returned changes none of the four tables and returns 0.
C14_PurgeIdempotent ==
  (last.op = "deleteTestRunsBefore" /\ last.ok) =>
    deleteTestRunsBefore(DB, last.cutoff, 0) = [ok |-> TRUE, db |-> DB, ret |-> 0]

\* C14 witness: a purge has deleted runs and left others, and left behind a
\* test_run_blueprints row that no run references.
C14_Witness ==
  /\ last.op = "deleteTestRunsBefore" /\ last.ok /\ last.ret >= 1
  /\ test_runs # EmptyBag
  /\ \E b \in DOMAIN test_run_blueprints :
       ~\E r \in DOMAIN test_runs : r.blueprint_id = b.id

\* C15: a deleteTestRunsBefore call that fails, at any statement of its
\* transaction or at COMMIT, leaves the four tables as they were before it.
C15_PurgeRollsBack ==
  [][(last'.op = "deleteTestRunsBefore" /\ ~last'.ok) => TablesUnchanged]_vars

\* C15 witness: a purge has failed at its last DELETE, after it had deleted
\* flakes, runs and test blueprints, and the flakes and the expired runs are
\* in the tables.
C15_Witness ==
  /\ last.op = "deleteTestRunsBefore" /\ ~last.ok /\ last.failAt = 6
  /\ test_flakes # EmptyBag
  /\ \E r \in DOMAIN test_runs : r.timestamp < last.cutoff
  /\ PotentiallyOrphaned(OrphanedTestRunBlueprints(DB, last.cutoff)) # {}

\* The eight digest bytes of a member id stored as a signed 64-bit integer.
DigestBytes(int64) ==
  [i \in 1..BLUEPRINT_ID_BUFFER_SIZE |->
     IF i = 1 /\ int64[1] < 0 THEN int64[1] + 256 ELSE int64[i]]

\* C18: the test_blueprint_ids of every row of test_run_blueprints are in
\* ascending order of their raw digest bytes.
C18_MembersSorted ==
  \A b \in DOMAIN test_run_blueprints :
    \A i, j \in DOMAIN b.test_blueprint_ids :
      i < j => BufferCompare(DigestBytes(b.test_blueprint_ids[i]),
                             DigestBytes(b.test_blueprint_ids[j])) <= 0

\* The lists fetchSomeTestRunsSinceDesc may return on the stored runs.
FetchResults(count, cutoff) ==
  {fetchSomeTestRunsSinceDesc(count, cutoff, Reverse(asc)) :
     asc \in TimestampOrders(SinceCutoff(DB, cutoff))}

\* C20: every run that fetchSomeTestRunsSinceDesc returns has succeeded =
\* TRUE exactly when the stored run of that id has a NULL result_spec, that
\* is, when all its tests passed.
C20_SucceededIffNullSpec ==
  \A count \in 0..MaxCount, cutoff \in {Undefined} \cup (0..MaxTime) :
    \A rows \in FetchResults(count, cutoff) :
      \A i \in DOMAIN rows :
        \A r \in DOMAIN test_runs :
          (r.source = rows[i].id.source /\ r.ext_id = rows[i].id.ext_id)
            => (rows[i].succeeded <=> r.result_spec = NULL)

\* C19: a DB.transaction call that got a client has released it exactly once
\* when it returns or rethrows, whichever of BEGIN, the closure, COMMIT and
\* ROLLBACK threw, and never more than once; when no call is in progress no
\* client is checked out of the pool.
C19_ClientReleasedOnce ==
  /\ \A c \in Callers :
       /\ pool.calls[c].released <= 1
       /\ (pool.calls[c].pc = "returned" /\ pool.calls[c].client # 0)
            => pool.calls[c].released = 1
       /\ pool.calls[c].pc \in {"BEGIN", "closure", "COMMIT", "ROLLBACK", "finally"}
            => pool.calls[c].client \notin pool.idle
  /\ (\A c \in Callers : pool.calls[c].pc \in {"idle", "returned"})
       => pool.idle = Clients

\* C19 witness: a deleteTestRunsBefore call has rethrown after COMMIT and
\* then ROLLBACK threw, and a createTestRun call that waited for its client
\* has returned after its commit.
C19_Witness ==
  \E c1, c2 \in Callers :
    /\ pool.calls[c1].op = "deleteTestRunsBefore"
    /\ pool.calls[c1].pc = "returned"
    /\ pool.calls[c1].thrown = {"COMMIT", "ROLLBACK"}
    /\ pool.calls[c1].released = 1
    /\ pool.calls[c2].op = "createTestRun"
    /\ pool.calls[c2].pc = "returned" /\ pool.calls[c2].thrown = {}
    /\ pool.calls[c2].released = 1
    /\ pool.calls[c1].client = pool.calls[c2].client

\* Every run resolves to a row of test_run_blueprints and every member id of
\* every row of test_run_blueprints resolves to a row of test_blueprints.
ReferentiallyClosed(db) ==
  /\ \A r \in DOMAIN db.test_runs :
       \E b \in DOMAIN db.test_run_blueprints : b.id = r.blueprint_id
  /\ \A b \in DOMAIN db.test_run_blueprints :
       \A id \in Range(b.test_blueprint_ids) :
         \E t \in DOMAIN db.test_blueprints : t.id = id

\* The run of the ingest references a candidate blueprint of the purge or
\* lists a test blueprint the purge deletes.
IngestMeetsPurge(purge, ingest) ==
  \/ \E row \in purge.rows :
       row.blueprint_id = DerivedOf(ingest.run).testRunRow.blueprint_id
  \/ Range(DerivedOf(ingest.run).testRunBlueprintRow.test_blueprint_ids)
       \cap purge.remaining # {}

\* C16: when a deleteTestRunsBefore and a createTestRun that were open at the
\* same time on a referentially closed database have both committed, and the
\* run references a candidate blueprint or lists a test blueprint the purge
\* deletes, the committed database is referentially closed.
C16_PurgeBesideIngestKeepsClosure ==
  (/\ sessions[1].op = "deleteTestRunsBefore" /\ sessions[1].pc = "committed"
   /\ sessions[2].op = "createTestRun" /\ sessions[2].pc = "committed"
   /\ sessions[1].pre = sessions[2].pre
   /\ ReferentiallyClosed(sessions[1].pre)
   /\ IngestMeetsPurge(sessions[1], sessions[2]))
    => ReferentiallyClosed(DB)

\* The database two createTestRun calls leave when the second begins after
\* the first has returned.
OneAfterTheOther(pre, first, second) ==
  createTestRun(createTestRun(pre, first, 0).db, second, 0).db

SharedTitles(run1, run2) ==
  {run1.results[i].title : i \in DOMAIN run1.results}
    \cap {run2.results[i].title : i \in DOMAIN run2.results}

\* C17: when two createTestRun transactions that were open at the same time,
\* on runs that share a title, have both committed, every blueprint id and
\* every (source, ext_id) is stored once, both runs have their row, and the
\* database is the one that the two calls leave when made one after the
\* other in one of the two orders.
C17_ConcurrentIngestIsSerial ==
  (/\ \A s \in Sessions :
        sessions[s].op = "createTestRun" /\ sessions[s].pc = "committed"
   /\ sessions[1].pre = sessions[2].pre
   /\ SharedTitles(sessions[1].run, sessions[2].run) # {})
    => /\ \A t \in DOMAIN test_blueprints :
            Restrict(test_blueprints, {x \in DOMAIN test_blueprints : x.id = t.id})
              = SetToBag({t})
       /\ \A b \in DOMAIN test_run_blueprints :
            Restrict(test_run_blueprints, {x \in DOMAIN test_run_blueprints : x.id = b.id})
              = SetToBag({b})
       /\ \A s \in Sessions :
            CountRows(test_runs,
                      {r \in DOMAIN test_runs :
                         /\ r.source = sessions[s].run.id.source
                         /\ r.ext_id = sessions[s].run.id.ext_id}) = 1
       /\ DB \in {OneAfterTheOther(sessions[1].pre, sessions[1].run, sessions[2].run),
                  OneAfterTheOther(sessions[1].pre, sessions[2].run, sessions[1].run)}

\* C17 witness: the two runs have different ids and one member set, listed
\* in different orders, whose blueprint was not stored before; both have
\* committed, so one transaction waited for the other's blueprint rows.
C17_Witness ==
  /\ \A s \in Sessions :
       sessions[s].op = "createTestRun" /\ sessions[s].pc = "committed"
  /\ sessions[1].pre = sessions[2].pre
  /\ sessions[1].run.id # sessions[2].run.id
  /\ sessions[1].run.results # sessions[2].run.results
  /\ DerivedOf(sessions[1].run).testRunRow.blueprint_id
       = DerivedOf(sessions[2].run).testRunRow.blueprint_id
  /\ ~\E b \in DOMAIN sessions[1].pre.test_run_blueprints :
        b.id = DerivedOf(sessions[1].run).testRunRow.blueprint_id
  /\ BagCardinality(test_runs) = BagCardinality(sessions[1].pre.test_runs) + 2

\* C21: a createTestRun call whose run has no results opens no transaction:
\* its session is never at a statement of a transaction, nor committed, nor
\* rolled back.
C21_EmptyResultsOpenNoTransaction ==
  \A s \in Sessions :
    (sessions[s].op = "createTestRun" /\ sessions[s].run.results = <<>>)
      => sessions[s].pc \notin {"test_blueprints", "test_run_blueprints", "test_runs",
                                "COMMIT", "committed", "aborted"}

\* A stored payload whose length minus 1 is not a multiple of 8.
Malformed(spec) ==
  spec # NULL /\ (Len(spec) - 1) % BLUEPRINT_ID_BUFFER_SIZE # 0

\* The reruns the query of a call with this cutoff returns that carry a
\* malformed payload, their own or their predecessor's.
MalformedReruns(cutoff, ord) ==
  {rerun \in FlakyTestReruns(DB, cutoff, ord) :
     Malformed(rerun.row.result_spec) \/ Malformed(rerun.row.previous_result_spec)}

\* C22: decodeIDResults reports an error for every stored payload whose
\* length minus 1 is not a multiple of 8, against the members of its run;
\* and a markTestFlakesSince call whose query returns such a payload throws
\* and leaves test_flakes as it was.
C22_MalformedPayloadIsFatal ==
  [][/\ \A r \in DOMAIN test_runs' : \A b \in DOMAIN test_run_blueprints' :
          (Malformed(r.result_spec) /\ b.id = r.blueprint_id)
            => ~decodeIDResults(r.result_spec, b.test_blueprint_ids).ok
     /\ (/\ last'.op = "markTestFlakesSince"
         /\ \A ord \in TimestampOrders(DOMAIN test_runs) :
              MalformedReruns(last'.cutoff, ord) # {})
          => (~last'.ok /\ test_flakes' = test_flakes)]_vars

\* C22 witness: a call has thrown on a payload of one whole id followed by a
\* part of a second, while test_flakes held rows.
C22_Witness ==
  /\ last.op = "markTestFlakesSince" /\ ~last.ok
  /\ test_flakes # EmptyBag
  /\ \E r \in DOMAIN test_runs :
       /\ Malformed(r.result_spec)
       /\ Len(r.result_spec) > 1 + BLUEPRINT_ID_BUFFER_SIZE
       /\ r.timestamp > last.cutoff

\* C23: a createTestRun call whose (source, ext_id) is already stored leaves
\* that row of test_runs as it is, with its blueprint_id, timestamp, branch,
\* commit_id and result_spec, whatever the call carries.
C23_StoredRunImmutable ==
  [][last'.op = "createTestRun" =>
       \A r \in DOMAIN test_runs :
         (r.source = last'.run.id.source /\ r.ext_id = last'.run.id.ext_id)
           => /\ r \in DOMAIN test_runs'
              /\ CountRows(test_runs',
                           {x \in DOMAIN test_runs' :
                              x.source = r.source /\ x.ext_id = r.ext_id}) = 1]_vars

\* C23 witness: the last call returned, its (source, ext_id) is stored, and
\* the stored row differs from the row of the call in blueprint_id,
\* timestamp and result_spec.
C23_Witness ==
  /\ last.op = "createTestRun" /\ last.ok
  /\ \E r \in DOMAIN test_runs :
       /\ r.source = last.run.id.source /\ r.ext_id = last.run.id.ext_id
       /\ r.blueprint_id # TestRunRowOf(last.run).blueprint_id
       /\ r.timestamp # TestRunRowOf(last.run).timestamp
       /\ r.result_spec # TestRunRowOf(last.run).result_spec

\* Every arrangement of the elements of a list.
PermutationsOf(seq) ==
  {[i \in DOMAIN seq |-> seq[f[i]]] :
     f \in {g \in [DOMAIN seq -> DOMAIN seq] : \A i, j \in DOMAIN seq : g[i] = g[j] => i = j}}

\* C24: deriveBlueprintIDForList returns the same id for every arrangement of
\* a list of member ids, and the caller's list is in its own order after the
\* call.
C24_ListIDIgnoresOrder ==
  codec.pc = "derived" =>
    /\ \A perm \in PermutationsOf(BlueprintIDsOf(codec.results)) :
         deriveBlueprintIDForList(perm) = codec.id
    /\ codec.ids = BlueprintIDsOf(codec.results)

\* C24 witness: the id of a list of three different members, given in an
\* order that is not ascending, has been derived.
C24_Witness ==
  /\ codec.pc = "derived"
  /\ Cardinality(Range(codec.ids)) = 3
  /\ codec.ids # SortIDs(codec.ids)

\* ceil(n / 2)
CeilHalf(n) == (n + 1) \div 2

\* C25 as stated: the payload of a list of n results with a failure has
\* 1 + 8 min(p, f) bytes, and fewer than 1 + 8 ceil(n / 2).
C25_SizeStrictlyBelowHalf ==
  (codec.pc = "encoded" /\ FailCount(codec.results) >= 1) =>
    /\ Len(codec.spec)
         = 1 + 8 * Min(PassCount(codec.results), FailCount(codec.results))
    /\ Len(codec.spec) < 1 + 8 * CeilHalf(Len(codec.results))

\* C25 amended: the payload has 1 + 8 min(p, f) bytes, at most
\* 1 + 8 floor(n / 2), and fewer than 1 + 8 ceil(n / 2) unless p = f.
C25_SizeAtMostHalf ==
  (codec.pc = "encoded" /\ FailCount(codec.results) >= 1) =>
    /\ Len(codec.spec)
         = 1 + 8 * Min(PassCount(codec.results), FailCount(codec.results))
    /\ Len(codec.spec) <= 1 + 8 * (Len(codec.results) \div 2)
    /\ PassCount(codec.results) # FailCount(codec.results)
         => Len(codec.spec) < 1 + 8 * CeilHalf(Len(codec.results))

\* C25 witness: a list with as many passes as failures has been encoded in
\* exactly 1 + 8 ceil(n / 2) bytes.
C25_Witness ==
  /\ codec.pc = "encoded"
  /\ FailCount(codec.results) >= 1
  /\ PassCount(codec.results) = FailCount(codec.results)
  /\ Len(codec.spec) = 1 + 8 * CeilHalf(Len(codec.results))

\* The member ids of a stored run blueprint as digests.
MemberDigests(b) ==
  [i \in DOMAIN b.test_blueprint_ids |-> DigestBytes(b.test_blueprint_ids[i])]

\* C26: in every state reached by createTestRun and deleteTestRunsBefore
\* calls, the id of every test_blueprints row is the digest of its title and
\* the id of every test_run_blueprints row is the digest of the concatenation
\* of its members sorted by raw bytes, both as signed 64-bit integers.
C26_DigestIntegrity ==
  /\ \A t \in DOMAIN test_blueprints :
       t.id = toInt64(BlueprintID_hash(Utf8(t.title)))
  /\ \A b \in DOMAIN test_run_blueprints :
       b.id = toInt64(BlueprintID_hash(ConcatBuffers(SortIDs(MemberDigests(b)))))

\* C26 witness: after a purge the tables still hold test blueprints and a
\* run blueprint of two different members stored out of byte order.
C26_Witness ==
  /\ last.op = "deleteTestRunsBefore" /\ last.ok
  /\ test_blueprints # EmptyBag
  /\ \E b \in DOMAIN test_run_blueprints :
       /\ Len(b.test_blueprint_ids) = 2
       /\ BufferCompare(MemberDigests(b)[1], MemberDigests(b)[2]) > 0

\* The ids of the rows of a test_blueprints table.
TestBlueprintIDs(table) == {t.id : t \in DOMAIN table}

\* S minus the members of the surviving run blueprints, for a purge at
\* cutoff: S is the union of the members of the candidates, a survivor is a
\* test_run_blueprints row that is not a candidate.
UnreferencedAfterPurge(db, cutoff) ==
  LET rows == OrphanedTestRunBlueprints(db, cutoff)
      survivors == {b \in DOMAIN db.test_run_blueprints :
                      \A row \in rows : row.blueprint_id # b.id}
  IN  PotentiallyOrphaned(rows)
        \ UNION {Range(b.test_blueprint_ids) : b \in survivors}

\* C27: the test blueprints a purge that returns deletes are those of S (the
\* members of the candidates) that no surviving run blueprint lists.
C27_PurgeDeletesSMinusSurvivorMembers ==
  [][(last'.op = "deleteTestRunsBefore" /\ last'.ok) =>
       TestBlueprintIDs(test_blueprints) \ TestBlueprintIDs(test_blueprints')
         = TestBlueprintIDs(test_blueprints)
             \cap UnreferencedAfterPurge(DB, last'.cutoff)]_vars

\* The statements of a purge in the order of the source, named by the table
\* they act on.
PurgeOrder ==
  <<"candidates", "test_flakes", "test_runs", "scan", "test_blueprints",
    "test_run_blueprints", "COMMIT", "committed">>

PurgePosition(pc) == CHOOSE i \in DOMAIN PurgeOrder : PurgeOrder[i] = pc

\* C28: a purge with no other session beside it deletes from test_flakes,
\* then test_runs, then test_blueprints, then test_run_blueprints, each
\* statement deleting from its own table only, and none of its statements
\* is rejected by a foreign key: the purge is never rolled back.
C28_PurgeOrderSatisfiesForeignKeys ==
  [][(sessions[1].op = "deleteTestRunsBefore" /\ sessions'[1] # sessions[1]
        /\ sessions'[1].op = "deleteTestRunsBefore") =>
       /\ sessions'[1].pc # "aborted"
       /\ PurgePosition(sessions'[1].pc) > PurgePosition(sessions[1].pc)
       /\ sessions'[1].pc # "committed" =>
            \A t \in TableNames :
              sessions'[1].del[t] # sessions[1].del[t] => sessions[1].pc = t]_vars

\* C28 witness: a purge is about to commit after deleting flakes, runs and
\* test blueprints.
C28_Witness ==
  /\ sessions[1].op = "deleteTestRunsBefore" /\ sessions[1].pc = "COMMIT"
  /\ sessions[1].del.test_flakes # EmptyBag
  /\ sessions[1].del.test_runs # EmptyBag
  /\ sessions[1].del.test_blueprints # EmptyBag

\* The reruns after the cutoff that the query of markTestFlakesSince leaves
\* out because of their result_spec, each with the members of its blueprint.
SkippedReruns(db, cutoff, ord) ==
  {[row |-> r, test_blueprint_ids |-> b.test_blueprint_ids] :
     <<r, b>> \in {p \in Reruns(ord) \X DOMAIN db.test_run_blueprints :
                     /\ p[1].timestamp > cutoff
                     /\ p[2].id = p[1].blueprint_id
                     /\ \A x \in FlakyTestReruns(db, cutoff, ord) : x.row # p[1]}}

\* C29: two stored runs of one blueprint whose result_specs the query's
\* comparison takes for equal decode to the same outcome for every member,
\* and a rerun the query skips for that reason has no member whose outcome
\* changed: decoding it would add no flake.
C29_EqualSpecsEqualOutcomes ==
  /\ \A r1, r2 \in DOMAIN test_runs, b \in DOMAIN test_run_blueprints :
       (/\ r1.blueprint_id = b.id /\ r2.blueprint_id = b.id
        /\ ~SpecsDiffer(r1.result_spec, r2.result_spec)) =>
         decodeIDResults(r1.result_spec, b.test_blueprint_ids)
           = decodeIDResults(r2.result_spec, b.test_blueprint_ids)
  /\ \A cutoff \in 0..MaxTime, ord \in TimestampOrders(DOMAIN test_runs) :
       \A rerun \in SkippedReruns(DB, cutoff, ord) :
         ~RerunThrows(rerun) /\ FlakesOfRerun(rerun) = {}

\* C29 witness: markTestFlakesSince has run on a database that holds a
\* rerun after its cutoff whose result_spec is absent like its predecessor's,
\* which the query skipped.
C29_Witness ==
  /\ last.op = "markTestFlakesSince" /\ last.ok
  /\ \E ord \in TimestampOrders(DOMAIN test_runs) :
       \E rerun \in SkippedReruns(DB, last.cutoff, ord) :
         rerun.row.result_spec = NULL /\ rerun.row.previous_result_spec = NULL

\* A payload with a tag byte followed by whole ids.
WellFormed(spec) == spec = NULL \/ (spec # <<>> /\ ~Malformed(spec))

\* C30: for every rerun the query of markTestFlakesSince returns, decoding a
\* well-formed result_spec against the members gives a Map with exactly one
\* boolean for every distinct member id, for the rerun and for its
\* predecessor, so no id of the rerun's Map is missing from the
\* predecessor's and "Test run blueprint mismatch" is not thrown.
C30_MismatchUnreachable ==
  \A cutoff \in 0..MaxTime, ord \in TimestampOrders(DOMAIN test_runs) :
    \A rerun \in FlakyTestReruns(DB, cutoff, ord) :
      rerun.test_blueprint_ids # NullArray =>
        /\ \A spec \in {rerun.row.result_spec, rerun.row.previous_result_spec} :
             WellFormed(spec) =>
               /\ decodeIDResults(spec, rerun.test_blueprint_ids).ok
               /\ DOMAIN decodeIDResults(spec, rerun.test_blueprint_ids).map
                    = Range(rerun.test_blueprint_ids)
               /\ \A id \in Range(rerun.test_blueprint_ids) :
                    decodeIDResults(spec, rerun.test_blueprint_ids).map[id] \in BOOLEAN
        /\ ~BlueprintMismatch(rerun)

\* C30 witness: markTestFlakesSince has returned after decoding a rerun of
\* two members whose payload, written by another writer, lists an id twice
\* and differs from its predecessor's payload.
C30_Witness ==
  /\ last.op = "markTestFlakesSince" /\ last.ok
  /\ \E ord \in TimestampOrders(DOMAIN test_runs) :
       \E rerun \in FlakyTestReruns(DB, last.cutoff, ord) :
         /\ Len(rerun.row.result_spec) = 1 + 2 * BLUEPRINT_ID_BUFFER_SIZE
         /\ rerun.row.previous_result_spec # NULL
         /\ Cardinality(Range(rerun.test_blueprint_ids)) = 2

\* C31: when a markTestFlakesSince call under the watermark policy follows
\* another with no run ingested in between, it returns 0 and leaves
\* test_flakes as it was.
C31_SecondMarkInsertsNothing ==
  [][(/\ last.op = "markTestFlakesSince" /\ last.ok
      /\ last'.op = "markTestFlakesSince") =>
       (last'.ret = 0 /\ test_flakes' = test_flakes)]_vars

\* The flake rows the reruns of the stored runs call for when the window
\* presents the runs in order ord, whatever their timestamps.
FlakesOwedIn(ord) ==
  UNION {FlakesOfRerun([row |-> p[1], test_blueprint_ids |-> p[2].test_blueprint_ids]) :
           p \in {q \in Reruns(ord) \X DOMAIN test_run_blueprints :
                    q[2].id = q[1].blueprint_id}}

\* The flake rows called for in every order of the window that are not in
\* test_flakes.
UnrecordedFlakes ==
  {row \in FlakesOwedIn(CHOOSE ord \in TimestampOrders(DOMAIN test_runs) : TRUE) :
     /\ row \notin DOMAIN test_flakes
     /\ \A ord \in TimestampOrders(DOMAIN test_runs) : row \in FlakesOwedIn(ord)}

\* C32: under the watermark policy, with markTestFlakesSince called again
\* and again, whenever a rerun's outcome for a test differs from its
\* predecessor's and the flake is not recorded, a later state has every such
\* flake recorded (or test_flakes has grown to MaxFlakes rows, where the
\* calls end).
C32_ChangedOutcomeEventuallyRecorded ==
  (UnrecordedFlakes # {})
    ~> (UnrecordedFlakes = {} \/ BagCardinality(test_flakes) >= MaxFlakes)

\* C33: while only createTestRun calls have been made, every row of
\* test_run_blueprints has a row of test_runs that references it.
C33_IngestCreatesNoOrphan ==
  history.ingestOnly =>
    \A b \in DOMAIN test_run_blueprints :
      \E r \in DOMAIN test_runs : r.blueprint_id = b.id

\* C34: of two createTestRun transactions open at the same time on runs with
\* results that share a title, neither is rolled back.
C34_ConcurrentIngestsBothCommit ==
  (/\ \A s \in Sessions :
        sessions[s].op = "createTestRun" /\ sessions[s].run.results # <<>>
   /\ SharedTitles(sessions[1].run, sessions[2].run) # {})
    => \A s \in Sessions : sessions[s].pc # "aborted"


\* C35: when a maintenance cycle has ended, whether Promise.all resolved or
\* one of its loops threw, no stored TestRun has a timestamp before the
\* expiredCutoff the cycle purged at.
C35_CycleKeepsRetentionWindow ==
  maintain.pc \in {"done", "failed"} =>
    \A r \in DOMAIN test_runs : ~(r.timestamp < maintain.expiredCutoff)

\* C35 witness: a cycle has ended normally whose purge deleted a run and
\* whose two loops each ingested a run.
C35_Witness ==
  /\ maintain.pc = "done"
  /\ maintain.purged
  /\ maintain.ingested = {"appveyor", "circleci"}
  /\ maintain.expiredCutoff > 1

\* C36: a DB.stream call that got a client has released it when the
\* iteration is over: after the rows are exhausted, after the consumer
\* stopped early and after the query failed while streaming.
C36_StreamReleasesClient ==
  \A c \in Callers :
    (pool.calls[c].op = "stream" /\ pool.calls[c].pc = "returned"
       /\ pool.calls[c].client # 0)
      => pool.calls[c].released = 1

\* The step is a call of load.
LoadCalled == caches'.answer.seq # caches.answer.seq /\ caches'.answer.of = "page"

\* C37: the page never has two computations in flight; a load made while a
\* computation is pending returns that computation and starts no query; a
\* load made less than 12 hours after the computation resolved is answered
\* with its result and starts no query; a load made 12 hours after it
\* resolved or later starts exactly one new computation.
C37_PageCacheSingleFlightTimeBounded ==
  [][/\ caches'.inFlight.page <= 1
     /\ (LoadCalled /\ caches.page.kind = "promise" /\ caches.page.state = "pending")
          => /\ caches'.answer.computation = caches.page.result
             /\ ~caches'.answer.queried
             /\ caches'.started.page = caches.started.page
     /\ (LoadCalled /\ caches.page.kind = "result"
           /\ caches.now < caches.resolvedAt.page + 12)
          => /\ caches'.answer.computation = caches.page.result
             /\ caches'.answer.state = "fulfilled"
             /\ ~caches'.answer.queried
             /\ caches'.started.page = caches.started.page
     /\ (LoadCalled /\ caches.page.kind = "result"
           /\ caches.now >= caches.resolvedAt.page + 12)
          => /\ caches'.answer.queried
             /\ caches'.started.page = caches.started.page + 1
             /\ caches'.inFlight.page = 1
             /\ caches'.answer.computation = caches'.started.page]_vars

\* C37 witness: the first computation resolved after hour 0, 12 hours or
\* more have passed since, and a load has started the second computation,
\* which is the only one in flight.
C37_Witness ==
  /\ caches.answer.of = "page"
  /\ caches.answer.queried
  /\ caches.answer.computation = 2
  /\ caches.inFlight.page = 1
  /\ caches.now >= caches.resolvedAt.page + 12
  /\ caches.resolvedAt.page > 0

\* C38: a load made after the computation of the page has rejected starts a
\* new computation.
C38_RejectionNotCached ==
  [][(LoadCalled /\ caches.page.kind = "promise" /\ caches.page.state = "rejected")
       => (caches'.answer.queried /\ caches'.answer.state = "pending")]_vars

\* C39: once a computation of the web service has resolved, with 12 hours
\* and a further computation left in the model, some later get starts a new
\* computation.
C39_SvcCacheEventuallyRecomputes ==
  \A n \in 1..(MaxComputations - 1) :
    (/\ caches.svc.state = "fulfilled"
     /\ caches.svc.result = n
     /\ caches.now + CACHE_DURATION <= MaxHours)
      ~> (caches.started.svc > n)

====
